---- MODULE Spec2Model ----
(***************************************************************************)
(* Model of the Strava MCP server: the package server                      *)
(* (src/src/strava_mcp_server/main.py) and the web-flow server             *)
(* (src/app.py).                                                           *)
(*                                                                         *)
(* Conventions                                                             *)
(*   - a Python string is a sequence of one-character strings;             *)
(*   - an optional value is a sequence of length <= 1: None is << >> and   *)
(*     a present value v is <<v>>;                                         *)
(*   - floats are exact rationals: metres and scores are integers, the     *)
(*     effort-ratio threshold is given in tenths;                          *)
(*   - a raised exception is a record naming its type and message, the     *)
(*     message kept as one string since nothing computes on it.            *)
(***************************************************************************)
EXTENDS Integers, Sequences, FiniteSets, TLC

VARIABLES
    remote,      \* the activities held by the remote service, newest first
    server,      \* "main" (package server) or "app" (web-flow server)
    tool,        \* the tool being run, "none" before any invocation
    pc,          \* "idle", "loop" (inside the per-activity loop), "done";
                 \* "forwarded" / "rejected" after the bearer gate
    args,        \* the arguments of the invocation
    activities,  \* the list returned by client.get_activities
    idx,         \* number of activities of the list already processed
    calls,       \* the calls issued to the collaborators, in order
    result,      \* the value the tool returns (being built while in the loop)
    env,         \* the environment variables of the server process
    user_tokens, \* app.py: the stored token entries, in insertion order
    history,     \* the detections and hint requests answered so far
    session      \* app.py: request.session of each browser, and how many
                 \* session identifiers /auth has generated

vars ==
    <<remote, server, tool, pc, args, activities, idx, calls, result, env,
      user_tokens, history, session>>

\* ------------------------------------------------------------------ bounds

\* Longest activity list the remote service returns in the e-bike runs.
MaxActs == 2

\* ------------------------------------------------------- Python primitives

None == << >>

Some(v) == <<v>>

\* How many browsers visit the web-flow server.
MaxBrowsers == 2

Browsers == 1..MaxBrowsers

\* request.session of every browser before any request: no session_id key.
NO_SESSIONS == [cookie |-> [b \in Browsers |-> None], issued |-> 0]

\* Python truthiness of an optional string: neither None nor "".
TruthyStr(o) == o # None /\ o[1] # << >>

\* Python truthiness of an optional number: neither None nor 0.
TruthyNum(o) == o # None /\ o[1] # 0

\* `x or 0` on an optional number.
OrZero(o) == IF TruthyNum(o) THEN o[1] ELSE 0

\* `needle in hay` on strings.
Contains(needle, hay) ==
    \E i \in 0..(Len(hay) - Len(needle)) :
        SubSeq(hay, i + 1, i + Len(needle)) = needle

\* Keeps the elements of s for which keep[i] holds (a list comprehension
\* with a condition).
RECURSIVE SelectIdx(_, _, _)
SelectIdx(s, keep, i) ==
    IF i > Len(s) THEN << >>
    ELSE (IF keep[i] THEN <<s[i]>> ELSE << >>) \o SelectIdx(s, keep, i + 1)

\* --------------------------------------------------------------- constants

STR_Ride == <<"R", "i", "d", "e">>
STR_Run == <<"R", "u", "n">>
STR_E == <<"E">>
STR_MountainBikeRide ==
    <<"M", "o", "u", "n", "t", "a", "i", "n", "B", "i", "k", "e", "R", "i", "d", "e">>
STR_EMountainBikeRide ==
    <<"E", "M", "o", "u", "n", "t", "a", "i", "n", "B", "i", "k", "e", "R", "i", "d", "e">>

\* "Probablement E-MTB - fix_ebike_activity()"
RECOMMENDATION ==
    <<"P", "r", "o", "b", "a", "b", "l", "e", "m", "e", "n", "t", " ", "E", "-",
      "M", "T", "B", " ", "-", " ", "f", "i", "x", "_", "e", "b", "i", "k", "e",
      "_", "a", "c", "t", "i", "v", "i", "t", "y", "(", ")">>

\* "fix_ebike_activity"
STR_fix_ebike_activity ==
    <<"f", "i", "x", "_", "e", "b", "i", "k", "e", "_", "a", "c", "t", "i", "v",
      "i", "t", "y">>

\* `if moving_time_sec < 600: continue`
MIN_MOVING_TIME == 600

\* `... if elevation > 100 else None`
RATIO_ELEVATION_FLOOR == 100

\* -------------------------------------------------------------- environment

STR_12345 == <<"1", "2", "3", "4", "5">>
STR_secret == <<"s", "e", "c", "r", "e", "t">>
STR_refresh == <<"r", "e", "f", "r", "e", "s", "h">>
STR_access == <<"a", "c", "c", "e", "s", "s">>

\* os.environ: the four Strava credentials and the bearer token of the /mcp
\* transport, None for a variable that is not set.
Env(client_id, client_secret, refresh_token, access_token, api_token) ==
    [STRAVA_CLIENT_ID |-> client_id,
     STRAVA_CLIENT_SECRET |-> client_secret,
     STRAVA_REFRESH_TOKEN |-> refresh_token,
     STRAVA_ACCESS_TOKEN |-> access_token,
     API_TOKEN |-> api_token]

\* Every credential set, no bearer token.
FULL_ENV ==
    Env(Some(STR_12345), Some(STR_secret), Some(STR_refresh),
        Some(STR_access), None)

\* os.getenv(name)
getenv(name) == env[name]

\* ------------------------------------------------------- duration normalizer

\* datetime.timedelta of n seconds: whole days and the seconds of the last
\* day.
TimeDelta(n) ==
    Some([kind |-> "timedelta", days |-> n \div 86400, seconds |-> n % 86400])

\* The integer duration of n seconds.
IntDuration(n) == Some([kind |-> "int", value |-> n])

\* The seconds a duration of the remote service lasts.
SecondsOf(duration) ==
    IF duration = None THEN 0
    ELSE IF duration[1].kind = "int" THEN duration[1].value
    ELSE CHOOSE n \in 0..(2 * 86400) : duration = TimeDelta(n)

\* to_seconds that answers -1 for an absent duration.
to_seconds_NoFallback(duration) ==
    IF duration = None THEN -1
    ELSE IF duration[1].kind = "timedelta"
    THEN duration[1].days * 86400 + duration[1].seconds
    ELSE duration[1].value

\* if duration is None: return 0
\* if hasattr(duration, "total_seconds"): return duration.total_seconds()
\* return int(duration)
to_seconds(duration) ==
    IF duration = None THEN 0
    ELSE IF duration[1].kind = "timedelta"
    THEN duration[1].days * 86400 + duration[1].seconds
    ELSE duration[1].value

\* ------------------------------------------------------------ remote client

\* StravaClient.get_activities / get_activity: the credential refresh, then
\* the remote call.
RefreshCall == [op |-> "refresh_access_token"]

ListCall(limit) == [op |-> "get_activities", limit |-> limit]

DetailCall(id) == [op |-> "get_activity", id |-> id]

\* The newest `limit` activities of the remote service.
RemoteList(limit) ==
    SubSeq(remote, 1, IF limit < Len(remote) THEN limit ELSE Len(remote))

\* The detailed record of activity `id`.
RemoteDetail(id) == remote[CHOOSE k \in 1..Len(remote) : remote[k].id = id]

\* ------------------------------------------------- activity records (remote)

\* An activity as the remote service holds it. Optional fields are None when
\* the record does not carry them.
Activity(type, sport_type, moving_time, elevation, cadence, suffer) ==
    [id |-> 0,
     name |-> Some(STR_Ride),
     type |-> type,
     sport_type |-> sport_type,
     distance |-> Some(15000),
     moving_time |-> moving_time,
     total_elevation_gain |-> elevation,
     average_cadence |-> cadence,
     suffer_score |-> suffer,
     start_latlng |-> None,
     location_city |-> None,
     location_state |-> None,
     location_country |-> None]

WithId(a, id) == [a EXCEPT !.id = id]

\* The remote service numbers its activities; the k-th of the list is 100 + k.
Numbered(f, n) == [k \in 1..n |-> WithId(f[k], 100 + k)]

ListsOver(samples, maxLen) ==
    UNION {{Numbered(f, n) : f \in [1..n -> samples]} : n \in 0..maxLen}

\* ------------------------------------------------ detect_ebike_activities

ActivityTypeStr(activity) ==
    IF TruthyStr(activity.type) THEN activity.type[1] ELSE << >>

IsRide(activity) == Contains(STR_Ride, ActivityTypeStr(activity))

AlreadyEBike(activity) ==
    TruthyStr(activity.sport_type) /\ Contains(STR_E, activity.sport_type[1])

Elevation(activity) == OrZero(activity.total_elevation_gain)

\* EbikeEligible with the moving-time test written `<=` instead of `<`.
EbikeEligible_TimeOffByOne(activity) ==
    /\ IsRide(activity)
    /\ ~AlreadyEBike(activity)
    /\ ~(to_seconds(activity.moving_time) <= MIN_MOVING_TIME)

\* The three `continue` tests of the loop, negated.
EbikeEligible(activity) ==
    /\ IsRide(activity)
    /\ ~AlreadyEBike(activity)
    /\ ~(to_seconds(activity.moving_time) < MIN_MOVING_TIME)

SufferScore(detailed) == OrZero(detailed.suffer_score)

\* suffer_score / (elevation / 100) as the exact fraction num / den, or None.
EffortRatio(suffer_score, elevation) ==
    IF elevation > RATIO_ELEVATION_FLOOR
    THEN Some([num |-> suffer_score * 100, den |-> elevation])
    ELSE None

\* CadenceSignal taking only a fast cadence as evidence.
CadenceSignal_FastOnly(detailed) ==
    detailed.average_cadence # None /\ detailed.average_cadence[1] > 100

CadenceSignal(detailed) ==
    detailed.average_cadence # None /\ detailed.average_cadence[1] > 0

\* IsLowEffort without the min_elevation test.
IsLowEffort_NoMinElevation(elevation, effort_ratio, threshold10, min_elevation) ==
    /\ effort_ratio # None
    /\ effort_ratio[1].num * 10 < threshold10 * effort_ratio[1].den

\* threshold10 is effort_ratio_threshold in tenths.
IsLowEffort(elevation, effort_ratio, threshold10, min_elevation) ==
    /\ elevation >= min_elevation
    /\ effort_ratio # None
    /\ effort_ratio[1].num * 10 < threshold10 * effort_ratio[1].den

\* f"Données de cadence présentes ({avg_cadence:.0f} rpm) - ..."
CadenceReason(detailed) ==
    [signal |-> "cadence", rpm |-> detailed.average_cadence[1]]

\* f"Effort faible pour le dénivelé (ratio {effort_ratio:.1f})": the ratio
\* rounded to one decimal, in tenths.
EffortReason(effort_ratio) ==
    [signal |-> "effort_ratio",
     ratio10 |-> (2 * 10 * effort_ratio[1].num + effort_ratio[1].den)
                     \div (2 * effort_ratio[1].den)]

Reasons(detailed, elevation, effort_ratio, threshold10, min_elevation) ==
    (IF CadenceSignal(detailed) THEN <<CadenceReason(detailed)>> ELSE << >>)
    \o (IF IsLowEffort(elevation, effort_ratio, threshold10, min_elevation)
        THEN <<EffortReason(effort_ratio)>> ELSE << >>)

\* IsSuspicious requiring both signals.
IsSuspicious_BothSignals(detailed, elevation, effort_ratio, threshold10, min_elevation) ==
    /\ CadenceSignal(detailed)
    /\ IsLowEffort(elevation, effort_ratio, threshold10, min_elevation)

IsSuspicious(detailed, elevation, effort_ratio, threshold10, min_elevation) ==
    \/ CadenceSignal(detailed)
    \/ IsLowEffort(elevation, effort_ratio, threshold10, min_elevation)

\* The mapping appended to `suspicious` (the fields the analysis decides).
EbikeEntry(activity, detailed, threshold10, min_elevation) ==
    LET elevation == Elevation(activity)
        suffer_score == SufferScore(detailed)
        effort_ratio == EffortRatio(suffer_score, elevation)
    IN  [id |-> activity.id,
         type |-> ActivityTypeStr(activity),
         elevation_gain |-> elevation,
         average_cadence |->
             IF TruthyNum(detailed.average_cadence)
             THEN detailed.average_cadence ELSE None,
         suffer_score |-> suffer_score,
         reasons |-> Reasons(detailed, elevation, effort_ratio,
                             threshold10, min_elevation),
         recommendation |-> RECOMMENDATION]

\* EbikeAppend with a cache: an activity reported by an earlier invocation
\* is not reported again.
EbikeAppend_ReportsOnce(activity, detailed, threshold10, min_elevation) ==
    IF /\ IsSuspicious(detailed, Elevation(activity),
                       EffortRatio(SufferScore(detailed), Elevation(activity)),
                       threshold10, min_elevation)
       /\ \A h \in 1..Len(history) :
              \/ history[h].tool # "detect_ebike_activities"
              \/ \A k \in 1..Len(history[h].result) :
                     history[h].result[k].id # activity.id
    THEN <<EbikeEntry(activity, detailed, threshold10, min_elevation)>>
    ELSE << >>

\* One pass of the loop body for a fetched detailed record: the entries to
\* append to `suspicious`.
EbikeAppend(activity, detailed, threshold10, min_elevation) ==
    IF IsSuspicious(detailed, Elevation(activity),
                    EffortRatio(SufferScore(detailed), Elevation(activity)),
                    threshold10, min_elevation)
    THEN <<EbikeEntry(activity, detailed, threshold10, min_elevation)>>
    ELSE << >>

\* The caller's thresholds: the defaults (4.5, 200 m) and others around them.
EbikeThresholds ==
    {[effort_ratio_threshold10 |-> 45, min_elevation |-> 200],
     [effort_ratio_threshold10 |-> 45, min_elevation |-> 100],
     [effort_ratio_threshold10 |-> 45, min_elevation |-> 50],
     [effort_ratio_threshold10 |-> 100, min_elevation |-> 200]}

\* client = StravaClient(); activities = client.get_activities(limit=limit)
DetectEbikeStart ==
    /\ pc = "idle"
    /\ \E limit \in {1, MaxActs}, th \in EbikeThresholds :
        /\ args' = [limit |-> limit,
                    effort_ratio_threshold10 |-> th.effort_ratio_threshold10,
                    min_elevation |-> th.min_elevation]
        /\ activities' = RemoteList(limit)
        /\ calls' = <<RefreshCall, ListCall(limit)>>
    /\ server' = "main"
    /\ tool' = "detect_ebike_activities"
    /\ idx' = 0
    /\ result' = << >>
    /\ pc' = "loop"
    /\ UNCHANGED <<history, session, remote, env, user_tokens>>

\* One iteration of `for activity in activities`.
DetectEbikeStep ==
    /\ pc = "loop"
    /\ tool = "detect_ebike_activities"
    /\ idx < Len(activities)
    /\ LET activity == activities[idx + 1]
       IN  IF EbikeEligible(activity)
           THEN /\ calls' = calls \o <<RefreshCall, DetailCall(activity.id)>>
                /\ result' = result \o
                       EbikeAppend(activity, RemoteDetail(activity.id),
                                   args.effort_ratio_threshold10,
                                   args.min_elevation)
           ELSE UNCHANGED <<calls, result>>
    /\ idx' = idx + 1
    /\ UNCHANGED <<history, session, remote, server, tool, pc, args, activities, env, user_tokens>>

\* return suspicious
DetectEbikeReturn ==
    /\ pc = "loop"
    /\ tool = "detect_ebike_activities"
    /\ idx = Len(activities)
    /\ pc' = "done"
    /\ UNCHANGED <<history, session, remote, server, tool, args, activities, idx, calls, result,
                   env, user_tokens>>

\* A ride that passes the three eligibility tests.
Ride(elevation, cadence, suffer) ==
    Activity(Some(STR_Ride), Some(STR_MountainBikeRide), TimeDelta(3600),
             elevation, cadence, suffer)

\* The eligible rides the e-bike runs draw the remote list from: climbs
\* below, at and above the elevation limits, with and without cadence and
\* suffer score.
EbikeRideSamples ==
    {Ride(Some(80), None, Some(3)),
     Ride(Some(100), None, Some(3)),
     Ride(Some(150), None, Some(3)),
     Ride(Some(1000), None, Some(3)),
     Ride(Some(1000), None, Some(30)),
     Ride(Some(1000), None, Some(100)),
     Ride(Some(800), None, Some(60)),
     Ride(Some(1000), None, None),
     Ride(Some(80), None, None),
     Ride(Some(80), Some(85), Some(100)),
     Ride(Some(150), Some(85), Some(3)),
     Ride(Some(1000), Some(85), Some(3)),
     Ride(Some(1000), Some(85), Some(100)),
     Activity(Some(STR_Ride), None, IntDuration(600), None, Some(0), None)}

\* Activities one of the eligibility tests rejects; each would be reported
\* if it were analysed.
EbikeOtherSamples ==
    {Activity(Some(STR_Ride), Some(STR_EMountainBikeRide), TimeDelta(3600),
              Some(1000), Some(85), Some(30)),
     Activity(Some(STR_Run), Some(STR_Run), TimeDelta(3600),
              Some(1000), Some(85), Some(30)),
     Activity(None, None, TimeDelta(3600), Some(1000), Some(85), Some(30)),
     Activity(Some(STR_Ride), Some(STR_MountainBikeRide), TimeDelta(599),
              Some(1000), Some(85), Some(30)),
     Activity(Some(STR_Ride), Some(STR_MountainBikeRide), None,
              Some(1000), Some(85), Some(30))}

EbikeSamples == EbikeRideSamples \cup EbikeOtherSamples

InitEbike ==
    /\ remote \in ListsOver(EbikeSamples, MaxActs)
    /\ server = "main"
    /\ tool = "none"
    /\ pc = "idle"
    /\ args = << >>
    /\ activities = << >>
    /\ idx = 0
    /\ calls = << >>
    /\ result = << >>
    /\ env = FULL_ENV
    /\ user_tokens = << >>
    /\ history = << >>
    /\ session = NO_SESSIONS

NextEbike == DetectEbikeStart \/ DetectEbikeStep \/ DetectEbikeReturn

\* The package server running detect_ebike_activities against any remote list.
SpecEbike == InitEbike /\ [][NextEbike]_vars

\* ------------------------------------------ claims: detect_ebike_activities

\* The positions of the fetched list the loop has gone through.
Analysed == IF tool = "detect_ebike_activities" THEN 1..idx ELSE {}

Reported(id) == \E j \in 1..Len(result) : result[j].id = id

EntryOf(id) == result[CHOOSE j \in 1..Len(result) : result[j].id = id]

HasReason(id, signal) ==
    /\ Reported(id)
    /\ \E r \in 1..Len(EntryOf(id).reasons) :
           EntryOf(id).reasons[r].signal = signal

\* Eligibility in the words of the specification: a ride, not typed as
\* electric, with at least ten minutes of moving time.
ClaimEligible(a) ==
    /\ a.type # None /\ Contains(STR_Ride, a.type[1])
    /\ ~(a.sport_type # None /\ Contains(STR_E, a.sport_type[1]))
    /\ a.moving_time # None /\ SecondsOf(a.moving_time) >= 600

PositiveCadence(d) == d.average_cadence # None /\ d.average_cadence[1] > 0

\* The ids of the detail fetches issued so far, in order.
DetailFetches ==
    LET fetched ==
            SelectIdx(calls, [i \in 1..Len(calls) |-> calls[i].op = "get_activity"], 1)
    IN  [i \in 1..Len(fetched) |-> fetched[i].id]

\* The ids of the eligible activities among the analysed ones, in list order.
EligibleIds ==
    LET upto == SubSeq(activities, 1, idx)
        kept == SelectIdx(upto, [i \in 1..idx |-> ClaimEligible(upto[i])], 1)
    IN  [i \in 1..Len(kept) |-> kept[i].id]

\* C1 (as stated): for every eligible ride with a suffer score and a climb,
\* the effort-ratio reason is produced exactly when elevation_gain >=
\* min_elevation and suffer_score / (elevation_gain / 100) is below
\* effort_ratio_threshold, for every caller-supplied pair of thresholds.
C1_EffortReasonIffRatioBelowThreshold ==
    \A k \in Analysed :
        LET a == activities[k]
            d == RemoteDetail(a.id)
        IN  (ClaimEligible(a) /\ d.suffer_score # None /\ Elevation(a) > 0)
            => (HasReason(a.id, "effort_ratio")
                <=> (/\ Elevation(a) >= args.min_elevation
                     /\ d.suffer_score[1] * 1000
                            < args.effort_ratio_threshold10 * Elevation(a)))

\* C2: every eligible ride whose detailed record carries a non-null, positive
\* average cadence is reported as suspicious, whatever its effort ratio,
\* suffer score and elevation gain.
C2_PositiveCadenceAlwaysReported ==
    \A k \in Analysed :
        (ClaimEligible(activities[k])
         /\ PositiveCadence(RemoteDetail(activities[k].id)))
        => Reported(activities[k].id)

\* C2 witness: a ride below min_elevation with a high suffer score (so the
\* effort-ratio signal is silent) and a positive cadence has been reported.
C2_Witness ==
    \E k \in Analysed :
        LET a == activities[k]
            d == RemoteDetail(a.id)
        IN  /\ ClaimEligible(a)
            /\ PositiveCadence(d)
            /\ Elevation(a) < args.min_elevation
            /\ d.suffer_score = Some(100)
            /\ Reported(a.id)

\* C3: an activity is in the returned list exactly when the cadence signal or
\* the effort-ratio signal triggered; every entry has one reason per
\* triggered signal, the cadence reason first, and the fixed recommendation
\* naming fix_ebike_activity.
C3_ReportedIffSomeSignal ==
    /\ \A j \in 1..Len(result) :
           \E k \in Analysed : activities[k].id = result[j].id
    /\ \A k \in Analysed :
           LET a == activities[k]
               d == RemoteDetail(a.id)
               cad == ClaimEligible(a) /\ PositiveCadence(d)
               eff == /\ ClaimEligible(a)
                      /\ IsLowEffort(Elevation(a),
                                     EffortRatio(SufferScore(d), Elevation(a)),
                                     args.effort_ratio_threshold10,
                                     args.min_elevation)
               n == (IF cad THEN 1 ELSE 0) + (IF eff THEN 1 ELSE 0)
           IN  /\ Reported(a.id) <=> (cad \/ eff)
               /\ Reported(a.id) =>
                      /\ Len(EntryOf(a.id).reasons) = n
                      /\ n >= 1
                      /\ cad => EntryOf(a.id).reasons[1].signal = "cadence"
                      /\ eff => EntryOf(a.id).reasons[n].signal = "effort_ratio"
                      /\ EntryOf(a.id).recommendation = RECOMMENDATION
                      /\ Contains(STR_fix_ebike_activity,
                                  EntryOf(a.id).recommendation)

\* C3 witness: the run returned an entry with both reasons and an entry with
\* a single reason.
C3_Witness ==
    /\ pc = "done"
    /\ tool = "detect_ebike_activities"
    /\ \E i, j \in 1..Len(result) :
           /\ Len(result[i].reasons) = 2
           /\ Len(result[j].reasons) = 1

\* C4: no detail fetch and no report for an activity that is not a ride, is
\* typed electric or moved for less than 600 s; exactly one detail fetch for
\* every other fetched activity, in list order; the run ends normally.
C4_OneFetchPerEligibleInOrder ==
    tool = "detect_ebike_activities" =>
        /\ DetailFetches = EligibleIds
        /\ \A k \in Analysed :
               ~ClaimEligible(activities[k]) => ~Reported(activities[k].id)
        /\ pc = "done" => idx = Len(activities)

\* C4 witness: a finished run over a list holding an ineligible activity
\* followed by an eligible one, fetched once.
C4_Witness ==
    /\ pc = "done"
    /\ tool = "detect_ebike_activities"
    /\ Len(activities) = 2
    /\ ~ClaimEligible(activities[1])
    /\ ClaimEligible(activities[2])
    /\ DetailFetches = <<activities[2].id>>

\* C5 (as stated): a ride whose elevation gain is below min_elevation is
\* never reported as suspicious, whatever its other fields.
C5_NeverReportedBelowMinElevation ==
    \A k \in Analysed :
        Elevation(activities[k]) < args.min_elevation
        => ~Reported(activities[k].id)

\* C5 (amended): a ride below min_elevation never gets the effort-ratio
\* reason; it is reported only when its detailed record carries a positive
\* average cadence.
C5_BelowMinElevationOnlyByCadence ==
    \A k \in Analysed :
        LET a == activities[k]
        IN  Elevation(a) < args.min_elevation =>
                /\ ~HasReason(a.id, "effort_ratio")
                /\ Reported(a.id) => PositiveCadence(RemoteDetail(a.id))

\* C5 witness: an analysed ride with a computable, low effort ratio, no
\* cadence and a climb below min_elevation is not reported.
C5_Witness ==
    \E k \in Analysed :
        LET a == activities[k]
            d == RemoteDetail(a.id)
        IN  /\ ClaimEligible(a)
            /\ Elevation(a) > RATIO_ELEVATION_FLOOR
            /\ Elevation(a) < args.min_elevation
            /\ d.suffer_score = Some(3)
            /\ ~PositiveCadence(d)
            /\ ~Reported(a.id)

\* C6 (as stated): a ride whose detailed record has no suffer score and no
\* positive average cadence is not reported, for every elevation gain and
\* every threshold setting.
C6_NoSufferScoreNotReported ==
    \A k \in Analysed :
        LET a == activities[k]
            d == RemoteDetail(a.id)
        IN  (ClaimEligible(a) /\ d.suffer_score = None /\ ~PositiveCadence(d))
            => ~Reported(a.id)

\* ----------------------------------------------------------- string helpers

UPPER_CHARS ==
    <<"A", "B", "C", "D", "E", "F", "G", "H", "I", "J", "K", "L", "M", "N",
      "O", "P", "Q", "R", "S", "T", "U", "V", "W", "X", "Y", "Z", "É", "È",
      "À">>

LOWER_CHARS ==
    <<"a", "b", "c", "d", "e", "f", "g", "h", "i", "j", "k", "l", "m", "n",
      "o", "p", "q", "r", "s", "t", "u", "v", "w", "x", "y", "z", "é", "è",
      "à">>

\* str.lower() on one character.
LowerChar(c) ==
    IF \E i \in 1..Len(UPPER_CHARS) : UPPER_CHARS[i] = c
    THEN LOWER_CHARS[CHOOSE i \in 1..Len(UPPER_CHARS) : UPPER_CHARS[i] = c]
    ELSE c

\* str.lower()
Lower(s) == [i \in 1..Len(s) |-> LowerChar(s[i])]

IsSpace(c) == c \in {" ", "\t", "\n", "\r"}

\* str.strip()
RECURSIVE Strip(_)
Strip(s) ==
    IF s = << >> THEN s
    ELSE IF IsSpace(Head(s)) THEN Strip(Tail(s))
    ELSE IF IsSpace(s[Len(s)]) THEN Strip(SubSeq(s, 1, Len(s) - 1))
    ELSE s

\* `x in list`
InList(x, list) == \E i \in 1..Len(list) : list[i] = x

\* sep.join(parts)
RECURSIVE Join(_, _)
Join(sep, parts) ==
    IF parts = << >> THEN << >>
    ELSE IF Len(parts) = 1 THEN parts[1]
    ELSE parts[1] \o sep \o Join(sep, Tail(parts))

\* `a or b` on optional strings.
OrStr(a, b) == IF TruthyStr(a) THEN a ELSE b

STR_COMMA_SPACE == <<",", " ">>

\* "Lieu inconnu"
LIEU_INCONNU == <<"L", "i", "e", "u", " ", "i", "n", "c", "o", "n", "n", "u">>

\* ------------------------------------------------------ generic name lists

\* GENERIC_ACTIVITY_NAMES of the package server.
MAIN_GENERIC_ACTIVITY_NAMES ==
    <<<<"T", "r", "a", "i", "l", " ", "l", "e", " ", "m", "a", "t", "i",
         "n">>,
       <<"T", "r", "a", "i", "l", " ", "l", "e", " ", "m", "i", "d", "i">>,
       <<"T", "r", "a", "i", "l", " ", "d", "a", "n", "s", " ", "l", "'", "a",
         "p", "r", "è", "s", "-", "m", "i", "d", "i">>,
       <<"T", "r", "a", "i", "l", " ", "e", "n", " ", "s", "o", "i", "r", "é",
         "e">>,
       <<"T", "r", "a", "i", "l", " ", "e", "n", " ", "f", "i", "n", " ", "d",
         "e", " ", "j", "o", "u", "r", "n", "é", "e">>,
       <<"C", "o", "u", "r", "s", "e", " ", "l", "e", " ", "m", "a", "t", "i",
         "n">>,
       <<"C", "o", "u", "r", "s", "e", " ", "l", "e", " ", "m", "i", "d",
         "i">>,
       <<"C", "o", "u", "r", "s", "e", " ", "d", "a", "n", "s", " ", "l", "'",
         "a", "p", "r", "è", "s", "-", "m", "i", "d", "i">>,
       <<"C", "o", "u", "r", "s", "e", " ", "e", "n", " ", "s", "o", "i", "r",
         "é", "e">>,
       <<"C", "o", "u", "r", "s", "e", " ", "e", "n", " ", "f", "i", "n", " ",
         "d", "e", " ", "j", "o", "u", "r", "n", "é", "e">>,
       <<"S", "o", "r", "t", "i", "e", " ", "v", "é", "l", "o", " ", "l", "e",
         " ", "m", "a", "t", "i", "n">>,
       <<"S", "o", "r", "t", "i", "e", " ", "v", "é", "l", "o", " ", "l", "e",
         " ", "m", "i", "d", "i">>,
       <<"S", "o", "r", "t", "i", "e", " ", "v", "é", "l", "o", " ", "d", "a",
         "n", "s", " ", "l", "'", "a", "p", "r", "è", "s", "-", "m", "i", "d",
         "i">>,
       <<"S", "o", "r", "t", "i", "e", " ", "v", "é", "l", "o", " ", "e", "n",
         " ", "s", "o", "i", "r", "é", "e">>,
       <<"S", "o", "r", "t", "i", "e", " ", "v", "é", "l", "o", " ", "e", "n",
         " ", "f", "i", "n", " ", "d", "e", " ", "j", "o", "u", "r", "n", "é",
         "e">>,
       <<"V", "T", "T", " ", "l", "e", " ", "m", "a", "t", "i", "n">>,
       <<"V", "T", "T", " ", "l", "e", " ", "m", "i", "d", "i">>,
       <<"V", "T", "T", " ", "d", "a", "n", "s", " ", "l", "'", "a", "p", "r",
         "è", "s", "-", "m", "i", "d", "i">>,
       <<"V", "T", "T", " ", "e", "n", " ", "s", "o", "i", "r", "é", "e">>,
       <<"V", "T", "T", " ", "e", "n", " ", "f", "i", "n", " ", "d", "e", " ",
         "j", "o", "u", "r", "n", "é", "e">>,
       <<"R", "a", "n", "d", "o", "n", "n", "é", "e", " ", "l", "e", " ", "m",
         "a", "t", "i", "n">>,
       <<"R", "a", "n", "d", "o", "n", "n", "é", "e", " ", "l", "e", " ", "m",
         "i", "d", "i">>,
       <<"R", "a", "n", "d", "o", "n", "n", "é", "e", " ", "d", "a", "n", "s",
         " ", "l", "'", "a", "p", "r", "è", "s", "-", "m", "i", "d", "i">>,
       <<"R", "a", "n", "d", "o", "n", "n", "é", "e", " ", "e", "n", " ", "s",
         "o", "i", "r", "é", "e">>,
       <<"R", "a", "n", "d", "o", "n", "n", "é", "e", " ", "e", "n", " ", "f",
         "i", "n", " ", "d", "e", " ", "j", "o", "u", "r", "n", "é", "e">>,
       <<"M", "a", "r", "c", "h", "e", " ", "l", "e", " ", "m", "a", "t", "i",
         "n">>,
       <<"M", "a", "r", "c", "h", "e", " ", "l", "e", " ", "m", "i", "d",
         "i">>,
       <<"M", "a", "r", "c", "h", "e", " ", "d", "a", "n", "s", " ", "l", "'",
         "a", "p", "r", "è", "s", "-", "m", "i", "d", "i">>,
       <<"M", "a", "r", "c", "h", "e", " ", "e", "n", " ", "s", "o", "i", "r",
         "é", "e">>,
       <<"M", "a", "r", "c", "h", "e", " ", "e", "n", " ", "f", "i", "n", " ",
         "d", "e", " ", "j", "o", "u", "r", "n", "é", "e">>,
       <<"M", "o", "r", "n", "i", "n", "g", " ", "R", "u", "n">>,
       <<"L", "u", "n", "c", "h", " ", "R", "u", "n">>,
       <<"A", "f", "t", "e", "r", "n", "o", "o", "n", " ", "R", "u", "n">>,
       <<"E", "v", "e", "n", "i", "n", "g", " ", "R", "u", "n">>,
       <<"N", "i", "g", "h", "t", " ", "R", "u", "n">>,
       <<"M", "o", "r", "n", "i", "n", "g", " ", "R", "i", "d", "e">>,
       <<"L", "u", "n", "c", "h", " ", "R", "i", "d", "e">>,
       <<"A", "f", "t", "e", "r", "n", "o", "o", "n", " ", "R", "i", "d",
         "e">>,
       <<"E", "v", "e", "n", "i", "n", "g", " ", "R", "i", "d", "e">>,
       <<"N", "i", "g", "h", "t", " ", "R", "i", "d", "e">>,
       <<"M", "o", "r", "n", "i", "n", "g", " ", "W", "a", "l", "k">>,
       <<"L", "u", "n", "c", "h", " ", "W", "a", "l", "k">>,
       <<"A", "f", "t", "e", "r", "n", "o", "o", "n", " ", "W", "a", "l",
         "k">>,
       <<"E", "v", "e", "n", "i", "n", "g", " ", "W", "a", "l", "k">>,
       <<"N", "i", "g", "h", "t", " ", "W", "a", "l", "k">>,
       <<"M", "o", "r", "n", "i", "n", "g", " ", "H", "i", "k", "e">>,
       <<"L", "u", "n", "c", "h", " ", "H", "i", "k", "e">>,
       <<"A", "f", "t", "e", "r", "n", "o", "o", "n", " ", "H", "i", "k",
         "e">>,
       <<"E", "v", "e", "n", "i", "n", "g", " ", "H", "i", "k", "e">>,
       <<"N", "i", "g", "h", "t", " ", "H", "i", "k", "e">>>>

\* GENERIC_ACTIVITY_NAMES of the web-flow server.
APP_GENERIC_ACTIVITY_NAMES ==
    <<<<"T", "r", "a", "i", "l", " ", "e", "n", " ", "s", "o", "i", "r", "é",
         "e">>,
       <<"T", "r", "a", "i", "l", " ", "l", "e", " ", "m", "i", "d", "i">>,
       <<"T", "r", "a", "i", "l", " ", "d", "a", "n", "s", " ", "l", "'", "a",
         "p", "r", "è", "s", "-", "m", "i", "d", "i">>,
       <<"T", "r", "a", "i", "l", " ", "m", "a", "t", "i", "n", "a", "l">>,
       <<"C", "o", "u", "r", "s", "e", " ", "e", "n", " ", "s", "o", "i", "r",
         "é", "e">>,
       <<"C", "o", "u", "r", "s", "e", " ", "l", "e", " ", "m", "i", "d",
         "i">>,
       <<"C", "o", "u", "r", "s", "e", " ", "d", "a", "n", "s", " ", "l", "'",
         "a", "p", "r", "è", "s", "-", "m", "i", "d", "i">>,
       <<"C", "o", "u", "r", "s", "e", " ", "m", "a", "t", "i", "n", "a", "l",
         "e">>,
       <<"S", "o", "r", "t", "i", "e", " ", "v", "é", "l", "o", " ", "e", "n",
         " ", "s", "o", "i", "r", "é", "e">>,
       <<"S", "o", "r", "t", "i", "e", " ", "v", "é", "l", "o", " ", "l", "e",
         " ", "m", "i", "d", "i">>,
       <<"S", "o", "r", "t", "i", "e", " ", "v", "é", "l", "o", " ", "d", "a",
         "n", "s", " ", "l", "'", "a", "p", "r", "è", "s", "-", "m", "i", "d",
         "i">>,
       <<"V", "é", "l", "o", " ", "e", "n", " ", "s", "o", "i", "r", "é",
         "e">>,
       <<"V", "é", "l", "o", " ", "l", "e", " ", "m", "i", "d", "i">>,
       <<"V", "é", "l", "o", " ", "d", "a", "n", "s", " ", "l", "'", "a", "p",
         "r", "è", "s", "-", "m", "i", "d", "i">>,
       <<"V", "é", "l", "o", " ", "m", "a", "t", "i", "n", "a", "l">>,
       <<"R", "a", "n", "d", "o", "n", "n", "é", "e", " ", "e", "n", " ", "s",
         "o", "i", "r", "é", "e">>,
       <<"R", "a", "n", "d", "o", "n", "n", "é", "e", " ", "l", "e", " ", "m",
         "i", "d", "i">>,
       <<"R", "a", "n", "d", "o", "n", "n", "é", "e", " ", "d", "a", "n", "s",
         " ", "l", "'", "a", "p", "r", "è", "s", "-", "m", "i", "d", "i">>,
       <<"M", "a", "r", "c", "h", "e", " ", "e", "n", " ", "s", "o", "i", "r",
         "é", "e">>,
       <<"M", "a", "r", "c", "h", "e", " ", "l", "e", " ", "m", "i", "d",
         "i">>,
       <<"M", "a", "r", "c", "h", "e", " ", "d", "a", "n", "s", " ", "l", "'",
         "a", "p", "r", "è", "s", "-", "m", "i", "d", "i">>,
       <<"M", "o", "r", "n", "i", "n", "g", " ", "R", "u", "n">>,
       <<"L", "u", "n", "c", "h", " ", "R", "u", "n">>,
       <<"A", "f", "t", "e", "r", "n", "o", "o", "n", " ", "R", "u", "n">>,
       <<"E", "v", "e", "n", "i", "n", "g", " ", "R", "u", "n">>,
       <<"N", "i", "g", "h", "t", " ", "R", "u", "n">>,
       <<"M", "o", "r", "n", "i", "n", "g", " ", "R", "i", "d", "e">>,
       <<"L", "u", "n", "c", "h", " ", "R", "i", "d", "e">>,
       <<"A", "f", "t", "e", "r", "n", "o", "o", "n", " ", "R", "i", "d",
         "e">>,
       <<"E", "v", "e", "n", "i", "n", "g", " ", "R", "i", "d", "e">>,
       <<"N", "i", "g", "h", "t", " ", "R", "i", "d", "e">>,
       <<"M", "o", "r", "n", "i", "n", "g", " ", "W", "a", "l", "k">>,
       <<"L", "u", "n", "c", "h", " ", "W", "a", "l", "k">>,
       <<"A", "f", "t", "e", "r", "n", "o", "o", "n", " ", "W", "a", "l",
         "k">>,
       <<"E", "v", "e", "n", "i", "n", "g", " ", "W", "a", "l", "k">>,
       <<"N", "i", "g", "h", "t", " ", "W", "a", "l", "k">>,
       <<"M", "o", "r", "n", "i", "n", "g", " ", "H", "i", "k", "e">>,
       <<"A", "f", "t", "e", "r", "n", "o", "o", "n", " ", "H", "i", "k",
         "e">>,
       <<"E", "v", "e", "n", "i", "n", "g", " ", "H", "i", "k", "e">>,
       <<"M", "o", "r", "n", "i", "n", "g", " ", "T", "r", "a", "i", "l", " ",
         "R", "u", "n">>,
       <<"A", "f", "t", "e", "r", "n", "o", "o", "n", " ", "T", "r", "a", "i",
         "l", " ", "R", "u", "n">>,
       <<"E", "v", "e", "n", "i", "n", "g", " ", "T", "r", "a", "i", "l", " ",
         "R", "u", "n">>,
       <<"A", "c", "t", "i", "v", "i", "t", "é">>,
       <<"A", "c", "t", "i", "v", "i", "t", "y">>,
       <<"W", "o", "r", "k", "o", "u", "t">>,
       <<"E", "x", "e", "r", "c", "i", "s", "e">>,
       <<"T", "r", "a", "i", "n", "i", "n", "g">>,
       <<"S", "o", "r", "t", "i", "e">>,
       <<"B", "a", "l", "a", "d", "e">>,
       <<"P", "r", "o", "m", "e", "n", "a", "d", "e">>,
       <<"E", "-", "B", "i", "k", "e", " ", "R", "i", "d", "e">>,
       <<"S", "o", "r", "t", "i", "e", " ", "v", "é", "l", "o", " ", "é", "l",
         "e", "c", "t", "r", "i", "q", "u", "e">>,
       <<"V", "A", "E">>>>

\* generic_patterns of the package server: the time-of-day tokens.
generic_patterns ==
    <<<<"l", "e", " ", "m", "a", "t", "i", "n">>,
       <<"l", "e", " ", "m", "i", "d", "i">>,
       <<"l", "'", "a", "p", "r", "è", "s", "-", "m", "i", "d", "i">>,
       <<"e", "n", " ", "s", "o", "i", "r", "é", "e">>,
       <<"e", "n", " ", "f", "i", "n", " ", "d", "e", " ", "j", "o", "u", "r",
         "n", "é", "e">>,
       <<"M", "o", "r", "n", "i", "n", "g">>,
       <<"L", "u", "n", "c", "h">>,
       <<"A", "f", "t", "e", "r", "n", "o", "o", "n">>,
       <<"E", "v", "e", "n", "i", "n", "g">>,
       <<"N", "i", "g", "h", "t">>>>

\* -------------------------------------------------------- reverse geocoding

STR_Lyon == <<"L", "y", "o", "n">>
STR_ARA == <<"A", "R", "A">>
STR_France == <<"F", "r", "a", "n", "c", "e">>
STR_Annecy == <<"A", "n", "n", "e", "c", "y">>
STR_Bessans == <<"B", "e", "s", "s", "a", "n", "s">>
STR_Savoie == <<"S", "a", "v", "o", "i", "e">>
STR_Suisse == <<"S", "u", "i", "s", "s", "e">>
STR_Centre == <<"C", "e", "n", "t", "r", "e">>
STR_FullAddress == <<"C", "e", "n", "t", "r", "e", ",", " ", "A", "n", "n", "e", "c", "y">>

\* location.raw["address"]: the address components of a lookup result, None
\* for a component the result does not carry.
Address(city, village, state, country, suburb, county) ==
    [city |-> city, town |-> None, village |-> village, municipality |-> None,
     hamlet |-> None, state |-> state, country |-> country, suburb |-> suburb,
     county |-> county]

\* What _geocoder.reverse can do: raise (timeout, service error), return
\* None, return a location without raw data, or return a location.
GEO_RAISES == [kind |-> "raises"]

GEO_NO_RESULT == [kind |-> "none"]

GEO_NO_RAW == [kind |-> "found", raw |-> None, address |-> STR_FullAddress]

GeoFound(address) ==
    [kind |-> "found", raw |-> Some(address), address |-> STR_FullAddress]

GeoOutcomes ==
    {GEO_RAISES, GEO_NO_RESULT, GEO_NO_RAW,
     GeoFound(Address(Some(STR_Annecy), None, Some(STR_Savoie),
                      Some(STR_Suisse), Some(STR_Centre), Some(STR_Savoie))),
     GeoFound(Address(None, Some(STR_Bessans), None, Some(STR_Suisse),
                      None, None)),
     GeoFound(Address(None, None, None, None, None, None))}

\* dict.get(key) on a mapping returned by reverse_geocode ({} included).
GeoGet(geo, key) == IF key \in DOMAIN geo THEN geo[key] ELSE None

\* The empty dict `geo_info = {}`.
EMPTY_DICT == [k \in {} |-> None]

\* reverse_geocode(lat, lon), for what the lookup service answers.
reverse_geocode(outcome) ==
    IF outcome.kind = "found" /\ outcome.raw # None
    THEN LET address == outcome.raw[1]
         IN  [city |-> OrStr(address.city,
                         OrStr(address.town,
                           OrStr(address.village,
                             OrStr(address.municipality, address.hamlet)))),
              state |-> address.state,
              country |-> address.country,
              suburb |-> address.suburb,
              county |-> address.county,
              full_address |-> Some(outcome.address)]
    ELSE [city |-> None, state |-> None, country |-> None,
          full_address |-> None]

GeocodeCall(activity_id, latlng, outcome) ==
    [op |-> "reverse_geocode", activity_id |-> activity_id,
     lat |-> latlng.lat, lon |-> latlng.lon, outcome |-> outcome]

\* ------------------------------------------------------- location resolving

\* `if start_latlng:` ... `if lat and lon:`
HasUsableCoordinates(record) ==
    /\ record.start_latlng # None
    /\ record.start_latlng[1].lat # 0
    /\ record.start_latlng[1].lon # 0

\* main.py, detect_generic_named_activities: the lookup is tried only when
\* the record has no city.
MainGenericWantsGeocode(detailed) ==
    ~TruthyStr(detailed.location_city) /\ HasUsableCoordinates(detailed)

MainGenericLocation(detailed, called, geo) ==
    IF called
    THEN [city |-> GeoGet(geo, "city"),
          state |-> OrStr(detailed.location_state, GeoGet(geo, "state")),
          country |-> OrStr(detailed.location_country, GeoGet(geo, "country"))]
    ELSE [city |-> detailed.location_city,
          state |-> detailed.location_state,
          country |-> detailed.location_country]

\* app.py, detect_generic_named_activities: the three fields start as None
\* and only the lookup fills them.
AppGenericWantsGeocode(activity) == HasUsableCoordinates(activity)

AppGenericLocation(activity, called, geo) ==
    IF called
    THEN [city |-> GeoGet(geo, "city"),
          state |-> GeoGet(geo, "state"),
          country |-> GeoGet(geo, "country")]
    ELSE [city |-> None, state |-> None, country |-> None]

\* get_activity_details_for_naming (both servers): the lookup is tried
\* whenever the record has usable coordinates.
DetailsWantsGeocode(activity) == HasUsableCoordinates(activity)

DetailsLocation(activity, called, geo) ==
    IF called
    THEN [city |-> IF ~TruthyStr(activity.location_city)
                   THEN GeoGet(geo, "city") ELSE activity.location_city,
          state |-> OrStr(activity.location_state, GeoGet(geo, "state")),
          country |-> OrStr(activity.location_country, GeoGet(geo, "country"))]
    ELSE [city |-> activity.location_city,
          state |-> activity.location_state,
          country |-> activity.location_country]

\* LocationParts without the `if p` filter: a missing field becomes "".
LocationParts_KeepEmpty(loc) ==
    LET fields == <<loc.city, loc.state, loc.country>>
    IN  [i \in 1..3 |-> IF fields[i] # None THEN fields[i][1] ELSE << >>]

\* location_parts = [p for p in [city, state, country] if p]
LocationParts(loc) ==
    LET fields == <<loc.city, loc.state, loc.country>>
        kept == SelectIdx(fields, [i \in 1..3 |-> TruthyStr(fields[i])], 1)
    IN  [i \in 1..Len(kept) |-> kept[i][1]]

\* location = ", ".join(location_parts) if location_parts else "Lieu inconnu"
LocationString(loc) ==
    IF LocationParts(loc) # << >>
    THEN Join(STR_COMMA_SPACE, LocationParts(loc))
    ELSE LIEU_INCONNU

\* ------------------------------------------ detect_generic_named_activities

\* name = activity.name or ""
NameOrEmpty(activity) ==
    IF TruthyStr(activity.name) THEN activity.name[1] ELSE << >>

\* pattern.lower() / generic.lower() for every entry of the lists.
GENERIC_PATTERNS_LOWER ==
    [i \in 1..Len(generic_patterns) |-> Lower(generic_patterns[i])]

MAIN_NAMES_LOWER ==
    [i \in 1..Len(MAIN_GENERIC_ACTIVITY_NAMES) |->
        Lower(MAIN_GENERIC_ACTIVITY_NAMES[i])]

APP_NAMES_LOWER ==
    [i \in 1..Len(APP_GENERIC_ACTIVITY_NAMES) |->
        Lower(APP_GENERIC_ACTIVITY_NAMES[i])]

\* main.py: exact match of the stripped name, else a time-of-day token.
MainIsGeneric(name) ==
    \/ InList(Strip(name), MAIN_GENERIC_ACTIVITY_NAMES)
    \/ LET lowered == Lower(name)
       IN  \E i \in 1..Len(generic_patterns) :
               Contains(GENERIC_PATTERNS_LOWER[i], lowered)

\* AppIsGeneric without the `name in template` direction.
AppIsGeneric_ContainsOnly(name) ==
    LET lowered == Lower(name)
    IN  \E i \in 1..Len(APP_GENERIC_ACTIVITY_NAMES) :
            Contains(APP_NAMES_LOWER[i], lowered)

\* app.py: the name contains a template or a template contains the name.
AppIsGeneric(name) ==
    LET lowered == Lower(name)
    IN  \E i \in 1..Len(APP_GENERIC_ACTIVITY_NAMES) :
            \/ Contains(APP_NAMES_LOWER[i], lowered)
            \/ Contains(lowered, APP_NAMES_LOWER[i])

IsGeneric(srv, name) ==
    IF srv = "main" THEN MainIsGeneric(name) ELSE AppIsGeneric(name)

\* The calls a client method issues: StravaClient refreshes first, the
\* web-flow server calls the library client directly.
ClientCalls(srv, call) ==
    IF srv = "main" THEN <<RefreshCall, call>> ELSE <<call>>

\* StravaClient() / get_current_client()
ClientSetup(srv) ==
    IF srv = "main" THEN << >> ELSE <<[op |-> "get_current_client"]>>

MainGenericEntry(activity, detailed, loc) ==
    [id |-> activity.id,
     current_name |-> NameOrEmpty(activity),
     location |-> LocationString(loc),
     coordinates |-> detailed.start_latlng,
     suffer_score |-> detailed.suffer_score]

AppGenericEntry(activity, loc) ==
    [id |-> activity.id,
     name |-> activity.name[1],
     location |-> LocationString(loc)]

\* How long a list the generic-name runs fetch.
MaxNamed == 2

DetectGenericStart ==
    /\ pc = "idle"
    /\ \E srv \in {"main", "app"}, limit \in {1, MaxNamed} :
        /\ server' = srv
        /\ args' = [limit |-> limit]
        /\ activities' = RemoteList(limit)
        /\ calls' = ClientSetup(srv) \o ClientCalls(srv, ListCall(limit))
    /\ tool' = "detect_generic_named_activities"
    /\ idx' = 0
    /\ result' = << >>
    /\ pc' = "loop"
    /\ UNCHANGED <<history, session, remote, env, user_tokens>>

\* One iteration of the loop of main.py.
MainGenericBody(activity, outcome) ==
    LET detailed == RemoteDetail(activity.id)
        called == MainGenericWantsGeocode(detailed)
        loc == MainGenericLocation(detailed, called, reverse_geocode(outcome))
    IN  /\ calls' = calls \o ClientCalls("main", DetailCall(activity.id))
                \o (IF called
                    THEN <<GeocodeCall(activity.id, detailed.start_latlng[1],
                                       outcome)>>
                    ELSE << >>)
        /\ result' = Append(result, MainGenericEntry(activity, detailed, loc))

\* One iteration of the loop of app.py.
AppGenericBody(activity, outcome) ==
    LET called == AppGenericWantsGeocode(activity)
        loc == AppGenericLocation(activity, called, reverse_geocode(outcome))
    IN  /\ calls' = calls \o
                (IF called
                 THEN <<GeocodeCall(activity.id, activity.start_latlng[1],
                                    outcome)>>
                 ELSE << >>)
        /\ result' = Append(result, AppGenericEntry(activity, loc))

\* The record the iteration looks coordinates up for.
GenericLookupWanted(srv, activity) ==
    IF srv = "main"
    THEN MainGenericWantsGeocode(RemoteDetail(activity.id))
    ELSE AppGenericWantsGeocode(activity)

DetectGenericStep ==
    /\ pc = "loop"
    /\ tool = "detect_generic_named_activities"
    /\ idx < Len(activities)
    /\ LET activity == activities[idx + 1]
           name == IF server = "main" THEN NameOrEmpty(activity)
                   ELSE activity.name[1]
       IN  IF IsGeneric(server, name)
           THEN \E outcome \in
                    (IF GenericLookupWanted(server, activity)
                     THEN GeoOutcomes ELSE {GEO_NO_RESULT}) :
                    IF server = "main"
                    THEN MainGenericBody(activity, outcome)
                    ELSE AppGenericBody(activity, outcome)
           ELSE UNCHANGED <<calls, result>>
    /\ idx' = idx + 1
    /\ UNCHANGED <<history, session, remote, server, tool, pc, args, activities, env, user_tokens>>

\* return generic_activities
DetectGenericReturn ==
    /\ pc = "loop"
    /\ tool = "detect_generic_named_activities"
    /\ idx = Len(activities)
    /\ pc' = "done"
    /\ UNCHANGED <<history, session, remote, server, tool, args, activities, idx, calls, result,
                   env, user_tokens>>

\* --------------------------------------------------- naming-hint synthesizer

\* A Python float that is a quotient of integers, kept exact.
Rat(num, den) == [num |-> num, den |-> den]

RAT_ZERO == Rat(0, 1)

\* a < b and a > b for quotients with positive denominators.
RatLess(a, b) == a.num * b.den < b.num * a.den

RatGreater(a, b) == a.num * b.den > b.num * a.den

\* round(x, digits) for x = num / den >= 0, as an integer count of units of
\* 10^-digits (scale = 10^digits); ties go to the even neighbour.
Round(x, scale) ==
    LET n == x.num * scale
        q == n \div x.den
        r == n % x.den
    IN  IF 2 * r < x.den THEN q
        ELSE IF 2 * r > x.den THEN q + 1
        ELSE IF q % 2 = 0 THEN q ELSE q + 1

\* speed_kmh = (distance / 1000) / (moving_time_sec / 3600)
\*             if moving_time_sec > 0 else 0
speed_kmh(distance, moving_time_sec) ==
    IF moving_time_sec > 0
    THEN Rat(distance * 3600, 1000 * moving_time_sec)
    ELSE RAT_ZERO

\* pace_min_km = (moving_time_sec / 60) / (distance / 1000)
\*               if distance > 0 else 0
pace_min_km(distance, moving_time_sec) ==
    IF distance > 0
    THEN Rat(moving_time_sec * 1000, 60 * distance)
    ELSE RAT_ZERO

\* elevation_per_km = elevation / (distance / 1000) if distance > 0 else 0
elevation_per_km(elevation, distance) ==
    IF distance > 0 THEN Rat(elevation * 1000, distance) ELSE RAT_ZERO

is_hilly(elevation, distance) ==
    RatGreater(elevation_per_km(elevation, distance), Rat(30, 1))

is_long(distance) == distance > 20000

\* is_fast with the ride test dropped.
is_fast_RunsOnly(activity_type, distance, moving_time_sec) ==
    Contains(STR_Run, activity_type)
    /\ RatLess(pace_min_km(distance, moving_time_sec), Rat(5, 1))

\* "Run" in activity_type and pace_min_km < 5
\*     or "Ride" in activity_type and speed_kmh > 25
is_fast(activity_type, distance, moving_time_sec) ==
    \/ /\ Contains(STR_Run, activity_type)
       /\ RatLess(pace_min_km(distance, moving_time_sec), Rat(5, 1))
    \/ /\ Contains(STR_Ride, activity_type)
       /\ RatGreater(speed_kmh(distance, moving_time_sec), Rat(25, 1))

\* The `if suffer_score:` ladder; a score of 0 takes no branch.
effort_level(suffer_score) ==
    IF ~TruthyNum(suffer_score) THEN "unknown"
    ELSE IF suffer_score[1] < 50 THEN "easy"
    ELSE IF suffer_score[1] < 100 THEN "moderate"
    ELSE IF suffer_score[1] < 150 THEN "hard"
    ELSE IF suffer_score[1] < 250 THEN "very_hard"
    ELSE "extreme"

\* suffer_score and suffer_score > 100: the score itself when it is None or
\* 0, the comparison otherwise.
mention_effort(suffer_score) ==
    IF TruthyNum(suffer_score) THEN Some(suffer_score[1] > 100)
    ELSE suffer_score

\* The "metrics" mapping: km in hundredths, metres, m/km in tenths, minutes,
\* km/h in tenths, min/km in hundredths.
DetailsMetrics(elevation, distance, moving_time_sec) ==
    [distance_km |-> Round(Rat(distance, 1000), 100),
     elevation_gain_m |-> Round(Rat(elevation, 1), 1),
     elevation_per_km |-> Round(elevation_per_km(elevation, distance), 10),
     moving_time_min |-> Round(Rat(moving_time_sec, 60), 1),
     average_speed_kmh |-> Round(speed_kmh(distance, moving_time_sec), 10),
     pace_min_per_km |-> Round(pace_min_km(distance, moving_time_sec), 100)]

\* ------------------------------------------ get_activity_details_for_naming

\* geo_info as the tool holds it after the lookup block.
DetailsGeoInfo(called, outcome) ==
    IF called THEN reverse_geocode(outcome) ELSE EMPTY_DICT

MainDetailsResult(activity, loc, geo_info) ==
    [id |-> activity.id,
     current_name |-> activity.name,
     type |-> ActivityTypeStr(activity),
     location |->
         [name |-> LocationString(loc),
          city |-> loc.city,
          state |-> loc.state,
          country |-> loc.country,
          suburb |-> GeoGet(geo_info, "suburb"),
          county |-> GeoGet(geo_info, "county"),
          full_address |-> GeoGet(geo_info, "full_address"),
          start_coordinates |-> activity.start_latlng],
     metrics |->
         DetailsMetrics(OrZero(activity.total_elevation_gain),
                        OrZero(activity.distance),
                        to_seconds(activity.moving_time)),
     effort |->
         [suffer_score |-> activity.suffer_score,
          effort_level |-> effort_level(activity.suffer_score)],
     characteristics |->
         [is_hilly |-> is_hilly(OrZero(activity.total_elevation_gain),
                                OrZero(activity.distance)),
          is_long |-> is_long(OrZero(activity.distance)),
          is_fast |-> is_fast(ActivityTypeStr(activity),
                              OrZero(activity.distance),
                              to_seconds(activity.moving_time))],
     naming_hints |->
         [use_location |-> LocationString(loc) # LIEU_INCONNU,
          mention_elevation |-> OrZero(activity.total_elevation_gain) > 300,
          mention_distance |-> is_long(OrZero(activity.distance)),
          mention_effort |-> mention_effort(activity.suffer_score)]]

AppDetailsResult(activity, loc, geo_info) ==
    [id |-> activity.id,
     current_name |-> activity.name,
     location |-> LocationString(loc),
     location_city |-> loc.city,
     location_state |-> loc.state,
     location_country |-> loc.country,
     suburb |-> GeoGet(geo_info, "suburb"),
     county |-> GeoGet(geo_info, "county"),
     full_address |-> GeoGet(geo_info, "full_address")]

\* The whole tool: fetch the activity, resolve its location, build the
\* mapping.
GetActivityDetailsForNaming ==
    /\ pc = "idle"
    /\ \E srv \in {"main", "app"}, k \in 1..Len(remote) :
        LET activity == RemoteDetail(remote[k].id)
            called == DetailsWantsGeocode(activity)
        IN  \E outcome \in (IF called THEN GeoOutcomes ELSE {GEO_NO_RESULT}) :
            LET geo_info == DetailsGeoInfo(called, outcome)
                loc == DetailsLocation(activity, called, geo_info)
            IN  /\ server' = srv
                /\ args' = [activity_id |-> activity.id]
                /\ calls' = ClientSetup(srv)
                       \o ClientCalls(srv, DetailCall(activity.id))
                       \o (IF called
                           THEN <<GeocodeCall(activity.id,
                                              activity.start_latlng[1], outcome)>>
                           ELSE << >>)
                /\ result' = IF srv = "main"
                             THEN MainDetailsResult(activity, loc, geo_info)
                             ELSE AppDetailsResult(activity, loc, geo_info)
    /\ tool' = "get_activity_details_for_naming"
    /\ pc' = "done"
    /\ UNCHANGED <<history, session, remote, activities, idx, env, user_tokens>>

\* ------------------------------------------------- inputs of the naming runs

LatLng(lat10, lon10) == Some([lat |-> lat10, lon |-> lon10])

\* An activity with the given name and location fields (coordinates in
\* tenths of a degree).
NamedActivity(name, city, state, country, latlng) ==
    [Activity(Some(STR_Run), Some(STR_Run), TimeDelta(3600), Some(100),
              None, Some(60))
        EXCEPT !.name = Some(name), !.location_city = city,
               !.location_state = state, !.location_country = country,
               !.start_latlng = latlng]

NAME_MorningRun == <<"M", "o", "r", "n", "i", "n", "g", " ", "R", "u", "n">>
NAME_MorningRunPadded == <<" ", "M", "o", "r", "n", "i", "n", "g", " ", "R", "u", "n", " ">>
NAME_MorningRunVariant == <<"m", "o", "r", "n", "i", "n", "g", " ", "r", "u", "n", " ", "v", "a", "r", "i", "a", "n", "t", " ", "t", "e", "x", "t">>
NAME_SunsetClimb == <<"S", "u", "n", "s", "e", "t", " ", "c", "l", "i", "m", "b", " ", "o", "f", " ", "M", "o", "n", "t", " ", "V", "e", "n", "t", "o", "u", "x">>
NAME_NightShift == <<"N", "i", "g", "h", "t", " ", "s", "h", "i", "f", "t">>
NAME_TrailLeMatin == <<"T", "r", "a", "i", "l", " ", "l", "e", " ", "m", "a", "t", "i", "n">>
NAME_Workout == <<"W", "o", "r", "k", "o", "u", "t">>

\* Names that are templates, contain one, are contained by one, contain a
\* time-of-day token, or none of these.
SampleNames ==
    {NAME_MorningRun, NAME_MorningRunPadded, NAME_MorningRunVariant,
     NAME_SunsetClimb, STR_Run, << >>, NAME_NightShift, NAME_TrailLeMatin,
     NAME_Workout}

\* The lists the generic-name runs draw from: every sample name without any
\* location data, and a generic name with location data of each kind.
GenericSamples ==
    {NamedActivity(n, None, None, None, None) : n \in SampleNames}
    \cup
    {NamedActivity(NAME_MorningRun, Some(STR_Lyon), None, None, LatLng(457, 48)),
     NamedActivity(NAME_MorningRun, None, Some(STR_ARA), Some(STR_France),
                   LatLng(457, 48)),
     NamedActivity(NAME_MorningRun, None, None, None, LatLng(0, 48))}

\* Single activities with every combination of location fields and
\* coordinates.
NamingSamples ==
    {NamedActivity(NAME_MorningRun, city, state, country, latlng) :
        city \in {None, Some(<< >>), Some(STR_Lyon)},
        state \in {None, Some(STR_ARA)},
        country \in {None, Some(STR_France)},
        latlng \in {None, LatLng(457, 48), LatLng(0, 48), LatLng(457, 0)}}

InitNames ==
    /\ remote \in ListsOver(GenericSamples, MaxNamed)
                  \cup {Numbered(<<a>>, 1) : a \in NamingSamples}
    /\ server = "main"
    /\ tool = "none"
    /\ pc = "idle"
    /\ args = << >>
    /\ activities = << >>
    /\ idx = 0
    /\ calls = << >>
    /\ result = << >>
    /\ env = FULL_ENV
    /\ user_tokens = << >>
    /\ history = << >>
    /\ session = NO_SESSIONS

NextNames ==
    \/ DetectGenericStart
    \/ DetectGenericStep
    \/ DetectGenericReturn
    \/ GetActivityDetailsForNaming

\* Both servers running the two tools that name activities.
SpecNames == InitNames /\ [][NextNames]_vars

\* --------------------------- claims: generic names and location resolving

GenericRun == tool = "detect_generic_named_activities"

DetailsRun == tool = "get_activity_details_for_naming" /\ pc = "done"

\* The positions of the fetched list the generic-name loop has gone through.
Scanned == IF GenericRun THEN 1..idx ELSE {}

TemplatesOf(srv) ==
    IF srv = "main" THEN MAIN_GENERIC_ACTIVITY_NAMES
    ELSE APP_GENERIC_ACTIVITY_NAMES

LoweredTemplatesOf(srv) ==
    IF srv = "main" THEN MAIN_NAMES_LOWER ELSE APP_NAMES_LOWER

\* Rule (1): the trimmed name equals a template, case-sensitively.
RuleExact(srv, name) ==
    \E i \in 1..Len(TemplatesOf(srv)) : TemplatesOf(srv)[i] = Strip(name)

\* Rule (2): the name contains, or is contained by, a template, ignoring case.
RuleSubstring(srv, name) ==
    \E i \in 1..Len(LoweredTemplatesOf(srv)) :
        \/ Contains(LoweredTemplatesOf(srv)[i], Lower(name))
        \/ Contains(Lower(name), LoweredTemplatesOf(srv)[i])

\* Rule (3): the name contains a time-of-day token, ignoring case.
RuleToken(name) ==
    \E i \in 1..Len(GENERIC_PATTERNS_LOWER) :
        Contains(GENERIC_PATTERNS_LOWER[i], Lower(name))

NameOf(k) == activities[k].name[1]

\* C7 (as stated): on both servers an activity is reported exactly when rule
\* (1), (2) or (3) holds of its name.
C7_ReportedIffAnyOfThreeRules ==
    \A k \in Scanned :
        Reported(activities[k].id)
        <=> (\/ RuleExact(server, NameOf(k))
             \/ RuleSubstring(server, NameOf(k))
             \/ RuleToken(NameOf(k)))

\* C7 (amended): the package server reports an activity exactly when rule
\* (1) or (3) holds of its name, the web-flow server exactly when rule (2)
\* holds against its own template list.
C7_ReportedIffServerRule ==
    \A k \in Scanned :
        Reported(activities[k].id)
        <=> IF server = "main"
            THEN RuleExact("main", NameOf(k)) \/ RuleToken(NameOf(k))
            ELSE RuleSubstring("app", NameOf(k))

\* C7 witness: a finished run of the package server over "Run" (contained by
\* a template) and "Night shift" (a token only) reports only the second.
C7_Witness ==
    /\ GenericRun
    /\ pc = "done"
    /\ server = "main"
    /\ Len(activities) = 2
    /\ NameOf(1) = STR_Run
    /\ NameOf(2) = NAME_NightShift
    /\ ~Reported(activities[1].id)
    /\ Reported(activities[2].id)

StartsWith(s, prefix) ==
    Len(prefix) <= Len(s) /\ SubSeq(s, 1, Len(prefix)) = prefix

EndsWith(s, suffix) ==
    /\ Len(suffix) <= Len(s)
    /\ SubSeq(s, Len(s) - Len(suffix) + 1, Len(s)) = suffix

\* The city, state and country a finished details run reports.
DetailsReported ==
    IF server = "main"
    THEN [city |-> result.location.city, state |-> result.location.state,
          country |-> result.location.country, name |-> result.location.name]
    ELSE [city |-> result.location_city, state |-> result.location_state,
          country |-> result.location_country, name |-> result.location]

\* C8 (as stated): in both tools of both servers a non-empty location_city,
\* location_state or location_country of the record is reported unchanged,
\* whatever the reverse lookup answers.
C8_RecordFieldsNeverOverwritten ==
    /\ GenericRun =>
           \A j \in 1..Len(result) :
               LET r == RemoteDetail(result[j].id)
                   location == result[j].location
               IN  /\ TruthyStr(r.location_city)
                       => StartsWith(location, r.location_city[1])
                   /\ TruthyStr(r.location_state)
                       => Contains(r.location_state[1], location)
                   /\ TruthyStr(r.location_country)
                       => EndsWith(location, r.location_country[1])
    /\ DetailsRun =>
           LET r == RemoteDetail(args.activity_id)
           IN  /\ TruthyStr(r.location_city)
                   => DetailsReported.city = r.location_city
               /\ TruthyStr(r.location_state)
                   => DetailsReported.state = r.location_state
               /\ TruthyStr(r.location_country)
                   => DetailsReported.country = r.location_country

\* The reverse lookup was invoked for the coordinates of activity `id`.
LookedUp(id) ==
    \E i \in 1..Len(calls) :
        calls[i].op = "reverse_geocode" /\ calls[i].activity_id = id

\* Start coordinates are present and city, state or country is missing.
LookupDue(r) ==
    /\ r.start_latlng # None
    /\ \/ ~TruthyStr(r.location_city)
       \/ ~TruthyStr(r.location_state)
       \/ ~TruthyStr(r.location_country)

\* C9 (as stated): in the tools of main.py the reverse lookup is invoked
\* exactly when the record has start coordinates and city, state or country
\* is missing, for every latitude and longitude.
C9_LookupIffCoordinatesAndMissingField ==
    server = "main" =>
        /\ GenericRun =>
               \A j \in 1..Len(result) :
                   LookedUp(result[j].id)
                   <=> LookupDue(RemoteDetail(result[j].id))
        /\ DetailsRun =>
               (LookedUp(args.activity_id)
                <=> LookupDue(RemoteDetail(args.activity_id)))

\* The ", "-join of the non-empty fields among city, state, country, written
\* out field by field.
ExpectedLocation(city, state, country) ==
    LET text(o) == IF TruthyStr(o) THEN o[1] ELSE << >>
        sep(a, b) == IF a /\ b THEN STR_COMMA_SPACE ELSE << >>
    IN  text(city)
        \o sep(TruthyStr(city), TruthyStr(state) \/ TruthyStr(country))
        \o text(state)
        \o sep(TruthyStr(state), TruthyStr(country))
        \o text(country)

\* C10: the location string of get_activity_details_for_naming is the
\* ", "-join of the resolved city, state, country with empty fields skipped;
\* it is "Lieu inconnu" exactly when all three are empty, and use_location
\* is true iff at least one of them resolved.
C10_LocationStringIsJoin ==
    DetailsRun =>
        LET rep == DetailsReported
            some == \/ TruthyStr(rep.city)
                    \/ TruthyStr(rep.state)
                    \/ TruthyStr(rep.country)
        IN  /\ some => rep.name = ExpectedLocation(rep.city, rep.state, rep.country)
            /\ (rep.name = LIEU_INCONNU) <=> ~some
            /\ server = "main" => (result.naming_hints.use_location <=> some)

\* C10 witness: a finished details run of the package server whose city is
\* empty while state and country resolved, so the join skips a field.
C10_Witness ==
    /\ DetailsRun
    /\ server = "main"
    /\ ~TruthyStr(result.location.city)
    /\ TruthyStr(result.location.state)
    /\ TruthyStr(result.location.country)
    /\ result.naming_hints.use_location

\* ---------------------------------------------------------------- claim C11

\* The six fields of the resolver's contract.
CONTRACT_FIELDS ==
    {"city", "state", "country", "suburb", "county", "full_address"}

\* The lookup failed: it raised, found nothing, or found no raw data.
GeoFailed(outcome) ==
    outcome.kind \in {"raises", "none"}
    \/ (outcome.kind = "found" /\ outcome.raw = None)

\* C11 (as stated): for every failed lookup of a run, reverse_geocode returns
\* a mapping that carries each of the six contract fields with value None,
\* and the tool that called it completes with a location.
C11_FailureResultHasSixNoneFields ==
    \A i \in 1..Len(calls) :
        (calls[i].op = "reverse_geocode" /\ GeoFailed(calls[i].outcome)) =>
            LET geo == reverse_geocode(calls[i].outcome)
            IN  /\ DOMAIN geo = CONTRACT_FIELDS
                /\ \A key \in DOMAIN geo : geo[key] = None

\* ------------------------------------------------ inputs of the metric runs

STR_Hike == <<"H", "i", "k", "e">>

\* An activity with the given type, distance (m), moving time, elevation
\* gain (m) and suffer score.
MetricActivity(type, distance, moving_time, elevation, suffer) ==
    [Activity(type, type, moving_time, elevation, None, suffer)
        EXCEPT !.distance = distance]

\* Runs, rides and other activities around every threshold of the
\* synthesizer: 5 min/km, 25 km/h, 20 km, 30 m/km, and the five effort tiers.
MetricSamples ==
    {MetricActivity(type, distance, moving_time, elevation, suffer) :
        type \in {None, Some(STR_Run), Some(STR_Ride), Some(STR_Hike)},
        distance \in {None, Some(0), Some(5000), Some(20000), Some(25000),
                      Some(25001)},
        moving_time \in {None, IntDuration(0), TimeDelta(1499),
                         TimeDelta(1500), IntDuration(3600)},
        elevation \in {None, Some(150), Some(151)},
        suffer \in {None, Some(0), Some(49), Some(50), Some(99), Some(100),
                    Some(149), Some(150), Some(249), Some(250)}}

InitMetrics ==
    /\ remote \in {Numbered(<<a>>, 1) : a \in MetricSamples}
    /\ server = "main"
    /\ tool = "none"
    /\ pc = "idle"
    /\ args = << >>
    /\ activities = << >>
    /\ idx = 0
    /\ calls = << >>
    /\ result = << >>
    /\ env = FULL_ENV
    /\ user_tokens = << >>
    /\ history = << >>
    /\ session = NO_SESSIONS

NextMetrics == GetActivityDetailsForNaming

\* get_activity_details_for_naming over activities of every metric profile.
SpecMetrics == InitMetrics /\ [][NextMetrics]_vars

\* ---------------------------------------------------------------- claim C12

\* A finished get_activity_details_for_naming of the package server.
MainDetailsRun == DetailsRun /\ server = "main"

\* The record the details run fetched.
DetailsRecord == RemoteDetail(args.activity_id)

\* The tier the specification gives a present score.
StatedTier(s) ==
    IF s < 50 THEN "easy"
    ELSE IF s < 100 THEN "moderate"
    ELSE IF s < 150 THEN "hard"
    ELSE IF s < 250 THEN "very_hard"
    ELSE "extreme"

\* C12 (as stated): every non-negative suffer score present on the record is
\* bucketed <50 easy, <100 moderate, <150 hard, <250 very_hard, else
\* extreme, and effort_level is "unknown" only when the score is absent.
C12_EffortLevelBuckets ==
    MainDetailsRun =>
        LET s == DetailsRecord.suffer_score
            level == result.effort.effort_level
        IN  /\ (s # None /\ s[1] >= 0) => level = StatedTier(s[1])
            /\ level = "unknown" => s = None

\* ---------------------------------------------------------------- claim C13

\* C13: in get_activity_details_for_naming speed is 0 when moving time is 0,
\* pace and elevation_per_km are 0 when distance is 0, is_hilly holds iff
\* elevation_per_km > 30, is_long iff distance > 20 km, and is_fast iff
\* (type contains "Run" and pace < 5 min/km) or (type contains "Ride" and
\* speed > 25 km/h).
C13_GuardedMetricsAndFlags ==
    MainDetailsRun =>
        LET r == DetailsRecord
            d == OrZero(r.distance)
            e == OrZero(r.total_elevation_gain)
            t == to_seconds(r.moving_time)
            type == ActivityTypeStr(r)
            paceBelow5 == d = 0 \/ t * 1000 < 5 * 60 * d
            speedAbove25 == t > 0 /\ d * 3600 > 25 * 1000 * t
            flags == result.characteristics
        IN  /\ t = 0 => result.metrics.average_speed_kmh = 0
            /\ d = 0 => /\ result.metrics.pace_min_per_km = 0
                        /\ result.metrics.elevation_per_km = 0
            /\ flags.is_hilly <=> (d > 0 /\ e * 1000 > 30 * d)
            /\ flags.is_long <=> d > 20000
            /\ flags.is_fast <=>
                   \/ Contains(STR_Run, type) /\ paceBelow5
                   \/ Contains(STR_Ride, type) /\ speedAbove25

\* C13 witness: a run with distance 0 and moving time 0: both divisions are
\* guarded, every metric is 0, and the pace of 0 makes the run fast.
C13_Witness ==
    /\ MainDetailsRun
    /\ DetailsRecord.distance = Some(0)
    /\ DetailsRecord.moving_time = IntDuration(0)
    /\ DetailsRecord.total_elevation_gain = Some(151)
    /\ ActivityTypeStr(DetailsRecord) = STR_Run
    /\ result.metrics.average_speed_kmh = 0
    /\ result.metrics.pace_min_per_km = 0
    /\ result.metrics.elevation_per_km = 0
    /\ result.characteristics.is_fast
    /\ ~result.characteristics.is_long
    /\ ~result.characteristics.is_hilly

\* ============================================================ credentials

\* A call that raised, and a call that returned `value`.
Raised(type, message) == [raised |-> TRUE, type |-> type, message |-> message]

Returned(value) == [raised |-> FALSE, value |-> value]

\* dict.get(key, default)
DictGet(d, key, default) == IF key \in DOMAIN d THEN d[key] ELSE default

\* ------------------------------------------------- the refresh of a token

\* The access token the authorization server issues for a refresh token.
Fresh(refresh_token) == <<"n", "e", "w", "-">> \o refresh_token

\* The refresh token the authorization server issues in place of the one
\* presented, which it accepts no longer.
Rotated(refresh_token) == <<"n", "e", "x", "t", "-">> \o refresh_token

\* What client.refresh_access_token can do: raise, return nothing, return
\* a new access/refresh pair, or return a mapping without an access token.
RefreshKinds == {"raises", "none", "pair", "no_access_token"}

\* The same, and a pair whose refresh token is a new one.
RotationKinds == RefreshKinds \cup {"rotated"}

RefreshOutcome(kind, refresh_token) ==
    CASE kind = "raises" -> [kind |-> "raises", tokens |-> None]
      [] kind = "none" -> [kind |-> "returns", tokens |-> None]
      [] kind = "pair" ->
            [kind |-> "returns",
             tokens |-> Some([access_token |-> Some(Fresh(refresh_token)),
                              refresh_token |-> Some(refresh_token)])]
      [] kind = "no_access_token" ->
            [kind |-> "returns",
             tokens |-> Some([refresh_token |-> Some(refresh_token)])]
      [] kind = "rotated" ->
            [kind |-> "returns",
             tokens |-> Some([access_token |-> Some(Fresh(refresh_token)),
                              refresh_token |-> Some(Rotated(refresh_token))])]

\* The refresh request as the authorization server sees it.
TokenRefreshCall(client_id, client_secret, refresh_token, outcome) ==
    [op |-> "refresh_access_token", client_id |-> client_id,
     client_secret |-> client_secret, refresh_token |-> refresh_token,
     outcome |-> outcome]

\* if tokens:
\*     client.access_token = tokens.get("access_token", client.access_token)
RefreshedAccessToken(access_token, outcome) ==
    IF outcome.kind = "returns" /\ outcome.tokens # None
    THEN DictGet(outcome.tokens[1], "access_token", access_token)
    ELSE access_token

\* ------------------------------------------------------------- StravaClient

MISSING_CREDENTIALS ==
    Raised("RuntimeError", "Missing Strava credentials in environment variables")

\* StravaClient() with the check written `is None` instead of truthiness.
StravaClient_NoneOnly ==
    IF \/ getenv("STRAVA_CLIENT_ID") = None
       \/ getenv("STRAVA_CLIENT_SECRET") = None
       \/ getenv("STRAVA_REFRESH_TOKEN") = None
       \/ getenv("STRAVA_ACCESS_TOKEN") = None
    THEN MISSING_CREDENTIALS
    ELSE Returned([client_id |-> getenv("STRAVA_CLIENT_ID"),
                   client_secret |-> getenv("STRAVA_CLIENT_SECRET"),
                   refresh_token |-> getenv("STRAVA_REFRESH_TOKEN"),
                   access_token |-> getenv("STRAVA_ACCESS_TOKEN"),
                   client_refresh_token |-> getenv("STRAVA_REFRESH_TOKEN")])

\* StravaClient(): the object built from the environment, or the error
\* raised by __init__. access_token and client_refresh_token are the two
\* attributes of self.client, refresh_token is self.refresh_token.
StravaClient ==
    IF ~(/\ TruthyStr(getenv("STRAVA_CLIENT_ID"))
         /\ TruthyStr(getenv("STRAVA_CLIENT_SECRET"))
         /\ TruthyStr(getenv("STRAVA_REFRESH_TOKEN"))
         /\ TruthyStr(getenv("STRAVA_ACCESS_TOKEN")))
    THEN MISSING_CREDENTIALS
    ELSE Returned([client_id |-> getenv("STRAVA_CLIENT_ID"),
                   client_secret |-> getenv("STRAVA_CLIENT_SECRET"),
                   refresh_token |-> getenv("STRAVA_REFRESH_TOKEN"),
                   access_token |-> getenv("STRAVA_ACCESS_TOKEN"),
                   client_refresh_token |-> getenv("STRAVA_REFRESH_TOKEN")])

\* StravaClient.refresh_access_token: the request it sends, whether it
\* raised, and the access token the client holds afterwards.
refresh_access_token(self, kind) ==
    LET outcome == RefreshOutcome(kind, self.refresh_token[1])
    IN  [call |-> TokenRefreshCall(self.client_id, self.client_secret,
                                   self.refresh_token, outcome),
         raised |-> outcome.kind = "raises",
         access_token |-> RefreshedAccessToken(self.access_token, outcome)]

\* The StravaClient object after refresh_access_token() returned:
\* if tokens:
\*     self.client.access_token = tokens.get("access_token", ...)
\*     self.client.refresh_token = tokens.get("refresh_token", ...)
after_refresh(self, kind) ==
    LET outcome == RefreshOutcome(kind, self.refresh_token[1])
    IN  IF outcome.kind = "returns" /\ outcome.tokens # None
        THEN [self EXCEPT
                !.access_token =
                    DictGet(outcome.tokens[1], "access_token", @),
                !.client_refresh_token =
                    DictGet(outcome.tokens[1], "refresh_token", @)]
        ELSE self

\* ------------------------------------------------ app.py get_current_client

NOT_AUTHENTICATED ==
    Raised("HTTPException 401", "Not authenticated. Visit / to connect Strava.")

\* The position in user_tokens of the first entry with an access token, 0
\* when there is none.
FirstStored ==
    IF \E k \in 1..Len(user_tokens) :
           TruthyStr(user_tokens[k].tokens.access_token)
    THEN CHOOSE k \in 1..Len(user_tokens) :
           /\ TruthyStr(user_tokens[k].tokens.access_token)
           /\ \A j \in 1..(k - 1) :
                  ~TruthyStr(user_tokens[j].tokens.access_token)
    ELSE 0

\* AppRefreshWanted without the test of CLIENT_SECRET.
AppRefreshWanted_NoSecretTest(refresh_token) ==
    /\ TruthyStr(getenv("STRAVA_CLIENT_ID"))
    /\ TruthyStr(refresh_token)

\* if CLIENT_ID and CLIENT_SECRET and <refresh token>:
AppRefreshWanted(refresh_token) ==
    /\ TruthyStr(getenv("STRAVA_CLIENT_ID"))
    /\ TruthyStr(getenv("STRAVA_CLIENT_SECRET"))
    /\ TruthyStr(refresh_token)

\* The client built from the pair (access_token, refresh_token): the refresh
\* request sent when one is wanted, and the access token held afterwards. A
\* refresh that raises is swallowed.
AppClient(access_token, refresh_token, kind) ==
    IF AppRefreshWanted(refresh_token)
    THEN LET outcome == RefreshOutcome(kind, refresh_token[1])
         IN  [calls |-> <<TokenRefreshCall(getenv("STRAVA_CLIENT_ID"),
                                           getenv("STRAVA_CLIENT_SECRET"),
                                           refresh_token, outcome)>>,
              stores |-> outcome.kind = "returns" /\ outcome.tokens # None,
              access_token |-> RefreshedAccessToken(access_token, outcome)]
    ELSE [calls |-> << >>, stores |-> FALSE, access_token |-> access_token]

\* get_current_client with the environment tokens tried before the stored
\* ones.
get_current_client_EnvFirst(kind) ==
    IF TruthyStr(getenv("STRAVA_ACCESS_TOKEN"))
    THEN LET client == AppClient(getenv("STRAVA_ACCESS_TOKEN"),
                                 getenv("STRAVA_REFRESH_TOKEN"), kind)
         IN  [raised |-> FALSE, calls |-> client.calls,
              access_token |-> client.access_token, stored |-> user_tokens]
    ELSE IF FirstStored # 0
    THEN LET tokens == user_tokens[FirstStored].tokens
             client == AppClient(tokens.access_token, tokens.refresh_token, kind)
         IN  [raised |-> FALSE, calls |-> client.calls,
              access_token |-> client.access_token, stored |-> user_tokens]
    ELSE [raised |-> TRUE, calls |-> << >>, access_token |-> None,
          stored |-> user_tokens]

\* get_current_client(): the client of the first stored entry that has an
\* access token, else the client of the environment tokens, else the 401
\* error. `stored` is user_tokens as the call leaves it.
get_current_client(kind) ==
    IF FirstStored # 0
    THEN LET tokens == user_tokens[FirstStored].tokens
             client == AppClient(tokens.access_token, tokens.refresh_token, kind)
         IN  [raised |-> FALSE, calls |-> client.calls,
              access_token |-> client.access_token,
              stored |-> IF client.stores
                         THEN [user_tokens EXCEPT
                                 ![FirstStored].tokens.access_token =
                                     client.access_token]
                         ELSE user_tokens]
    ELSE IF ~TruthyStr(getenv("STRAVA_ACCESS_TOKEN"))
    THEN [raised |-> TRUE, calls |-> << >>, access_token |-> None,
          stored |-> user_tokens]
    ELSE LET client == AppClient(getenv("STRAVA_ACCESS_TOKEN"),
                                 getenv("STRAVA_REFRESH_TOKEN"), kind)
         IN  [raised |-> FALSE, calls |-> client.calls,
              access_token |-> client.access_token, stored |-> user_tokens]

\* ------------------------------------------------------ calls to the API

\* A read or update request of a tool: the library method and its argument.
Request(op, arg) == [op |-> op, arg |-> arg]

\* The request as the remote service sees it, with the access token it
\* carried and what the service did with it.
ApiCall(request, access_token, outcome) ==
    [op |-> request.op, arg |-> request.arg, access_token |-> access_token,
     outcome |-> outcome]

API_FAULTS == {"not_found", "rate_limited", "invalid_update"}

KnownActivity(id) == \E k \in 1..Len(remote) : remote[k].id = id

\* What the remote service can answer to a request: "ok", "none" (an empty
\* answer), or a fault.
OutcomesOf(request) ==
    CASE request.op = "get_activities" -> {"ok", "rate_limited"}
      [] request.op = "get_activity" ->
            IF KnownActivity(request.arg) THEN {"ok", "rate_limited"}
            ELSE {"not_found"}
      [] request.op = "get_athlete" -> {"ok", "none", "rate_limited"}
      [] request.op = "get_athlete_stats" -> {"ok", "none", "not_found"}
      [] request.op = "update_activity" ->
            IF KnownActivity(request.arg.activity_id)
            THEN {"ok", "invalid_update"}
            ELSE {"not_found"}

\* The last request a tool gets to: the first whose answer is a fault (the
\* exception leaves the tool) or empty (the tool returns early).
StopAt(outs) ==
    IF \E i \in 1..Len(outs) : outs[i] # "ok"
    THEN CHOOSE i \in 1..Len(outs) :
            outs[i] # "ok" /\ \A j \in 1..(i - 1) : outs[j] = "ok"
    ELSE Len(outs)

\* The answers the remote service can give to the requests of a tool, one
\* per request; past the request the tool stops at, the answer is never
\* asked for and is written "ok".
OutcomeLists(requests) ==
    {outs \in [1..Len(requests) -> API_FAULTS \cup {"ok", "none"}] :
        /\ \A i \in 1..StopAt(outs) : outs[i] \in OutcomesOf(requests[i])
        /\ \A i \in (StopAt(outs) + 1)..Len(outs) : outs[i] = "ok"}

\* IssueCalls that goes on to the next request after a fault.
IssueCalls_PastFault(requests, access_token, outs) ==
    [i \in 1..Len(requests) |-> ApiCall(requests[i], access_token, outs[i])]

\* The requests a tool body issues, each once, in order.
IssueCalls(requests, access_token, outs) ==
    [i \in 1..StopAt(outs) |-> ApiCall(requests[i], access_token, outs[i])]

\* ------------------------------------------------------- the simple tools

ToolNames == {"get_activities", "get_activity", "get_stats", "rename_activity"}

\* The tools only main.py has that patch sport_type.
TypeToolNames == {"update_activity_type", "fix_ebike_activity"}

MainToolNames == ToolNames \cup TypeToolNames

\* An activity id the remote service does not know.
UNKNOWN_ID == 999

ToolArgs(name) ==
    CASE name = "get_activities" -> {[limit |-> 1]}
      [] name = "get_activity" ->
            {[activity_id |-> id] : id \in {101, UNKNOWN_ID}}
      [] name = "get_stats" -> {EMPTY_DICT}
      [] name = "rename_activity" ->
            {[activity_id |-> id, new_name |-> NAME_SunsetClimb] :
                id \in {101, UNKNOWN_ID}}
      [] name = "update_activity_type" ->
            {[activity_id |-> id, sport_type |-> STR_EMountainBikeRide] :
                id \in {101, UNKNOWN_ID}}
      [] name = "fix_ebike_activity" ->
            {[activity_id |-> id] : id \in {101, UNKNOWN_ID}}

\* Requests with rename_activity patching the sport type as well.
Requests_RenameAlsoRetypes(name, tool_args) ==
    CASE name = "get_activities" ->
            <<Request("get_activities", tool_args.limit)>>
      [] name = "get_activity" ->
            <<Request("get_activity", tool_args.activity_id)>>
      [] name = "get_stats" ->
            <<Request("get_athlete", None),
              Request("get_athlete_stats", None)>>
      [] name = "rename_activity" ->
            <<Request("update_activity",
                      [activity_id |-> tool_args.activity_id,
                       name |-> tool_args.new_name,
                       sport_type |-> STR_Run])>>
      [] name = "update_activity_type" ->
            <<Request("update_activity",
                      [activity_id |-> tool_args.activity_id,
                       sport_type |-> tool_args.sport_type])>>
      [] name = "fix_ebike_activity" ->
            <<Request("update_activity",
                      [activity_id |-> tool_args.activity_id,
                       sport_type |-> STR_EMountainBikeRide])>>

\* The requests of the tool body, the same in main.py (through StravaClient)
\* and in app.py (on the library client).
Requests(name, tool_args) ==
    CASE name = "get_activities" ->
            <<Request("get_activities", tool_args.limit)>>
      [] name = "get_activity" ->
            <<Request("get_activity", tool_args.activity_id)>>
      [] name = "get_stats" ->
            <<Request("get_athlete", None),
              Request("get_athlete_stats", None)>>
      [] name = "rename_activity" ->
            <<Request("update_activity",
                      [activity_id |-> tool_args.activity_id,
                       name |-> tool_args.new_name])>>
      [] name = "update_activity_type" ->
            <<Request("update_activity",
                      [activity_id |-> tool_args.activity_id,
                       sport_type |-> tool_args.sport_type])>>
      [] name = "fix_ebike_activity" ->
            <<Request("update_activity",
                      [activity_id |-> tool_args.activity_id,
                       sport_type |-> STR_EMountainBikeRide])>>

\* The mapping a tool returns when no request failed.
ToolValue(name, tool_args, outs) ==
    CASE name = "get_activities" ->
            LET list == RemoteList(tool_args.limit)
            IN  [k \in 1..Len(list) |->
                    [id |-> list[k].id, name |-> list[k].name]]
      [] name = "get_activity" ->
            [id |-> tool_args.activity_id,
             name |-> RemoteDetail(tool_args.activity_id).name]
      [] name = "get_stats" ->
            IF \E i \in 1..Len(outs) : outs[i] = "none" THEN EMPTY_DICT
            ELSE [all_run_totals |-> [count |-> Len(remote)]]
      [] name = "rename_activity" ->
            [id |-> tool_args.activity_id,
             name |-> Some(tool_args.new_name)]
      [] name = "update_activity_type" ->
            [id |-> tool_args.activity_id,
             name |-> RemoteDetail(tool_args.activity_id).name,
             sport_type |-> Some(tool_args.sport_type)]
      [] name = "fix_ebike_activity" ->
            [id |-> tool_args.activity_id,
             name |-> RemoteDetail(tool_args.activity_id).name,
             sport_type |-> Some(STR_EMountainBikeRide)]

\* What the invocation hands its caller: the mapping, or the error of the
\* request that failed.
ToolOutcome(name, tool_args, outs) ==
    IF outs[StopAt(outs)] \in API_FAULTS
    THEN Raised("Fault", outs[StopAt(outs)])
    ELSE Returned(ToolValue(name, tool_args, outs))

\* The record after the remote service applied the patch of an update
\* request to it.
Patched(record, patch) ==
    [f \in DOMAIN record |->
        IF f \in DOMAIN patch \ {"activity_id"} THEN Some(patch[f])
        ELSE record[f]]

\* The remote activities after the invocation: an update request that
\* succeeded changed the fields it carries, on the activity it names.
RemoteAfter(name, tool_args, outs) ==
    LET requests == Requests(name, tool_args)
    IN  IF requests[1].op = "update_activity" /\ outs[1] = "ok"
        THEN [k \in 1..Len(remote) |->
                IF remote[k].id = requests[1].arg.activity_id
                THEN Patched(remote[k], requests[1].arg)
                ELSE remote[k]]
        ELSE remote

\* A tool of main.py: StravaClient(), then the client method, which
\* refreshes the token and issues the requests.
MainInvocation(name, tool_args, kind, outs) ==
    IF StravaClient.raised
    THEN [calls |-> << >>, outcome |-> StravaClient, remote |-> remote]
    ELSE LET refreshed == refresh_access_token(StravaClient.value, kind)
         IN  IF refreshed.raised
             THEN [calls |-> <<refreshed.call>>,
                   outcome |-> Raised("Fault", "refresh failed"),
                   remote |-> remote]
             ELSE [calls |-> <<refreshed.call>>
                             \o IssueCalls(Requests(name, tool_args),
                                           refreshed.access_token, outs),
                   outcome |-> ToolOutcome(name, tool_args, outs),
                   remote |-> RemoteAfter(name, tool_args, outs)]

\* A tool of app.py: get_current_client(), then the requests on the client
\* it returned.
AppInvocation(name, tool_args, kind, outs) ==
    LET client == get_current_client(kind)
    IN  IF client.raised
        THEN [calls |-> << >>, outcome |-> NOT_AUTHENTICATED,
              remote |-> remote, stored |-> client.stored]
        ELSE [calls |-> client.calls
                        \o IssueCalls(Requests(name, tool_args),
                                      client.access_token, outs),
              outcome |-> ToolOutcome(name, tool_args, outs),
              remote |-> RemoteAfter(name, tool_args, outs),
              stored |-> client.stored]

\* ------------------------------------------------ AuthMiddleware.dispatch

STR_Bearer == <<"B", "e", "a", "r", "e", "r", " ">>

\* str.replace(old, new): every non-overlapping occurrence, left to right.
RECURSIVE Replace(_, _, _)
Replace(s, old, new) ==
    IF Len(s) < Len(old) THEN s
    ELSE IF SubSeq(s, 1, Len(old)) = old
    THEN new \o Replace(SubSeq(s, Len(old) + 1, Len(s)), old, new)
    ELSE <<s[1]>> \o Replace(Tail(s), old, new)

FORWARDED == [status_code |-> 0, detail |-> "call_next"]

JSONResponse(status_code, detail) ==
    [status_code |-> status_code, detail |-> detail]

\* dispatch(request): FORWARDED when the request is handed to the tool
\* transport, the error response otherwise.
dispatch(auth_header) ==
    IF ~TruthyStr(getenv("API_TOKEN")) THEN FORWARDED
    ELSE IF ~TruthyStr(auth_header) \/ ~StartsWith(auth_header[1], STR_Bearer)
    THEN JSONResponse(401, "Missing or invalid Authorization header")
    ELSE IF Replace(auth_header[1], STR_Bearer, << >>) # getenv("API_TOKEN")[1]
    THEN JSONResponse(403, "Invalid API token")
    ELSE FORWARDED

STR_k == <<"k">>
STR_Bearer_k == <<"B", "e", "a", "r", "e", "r", " ", "k">>
STR_Bearer_x == <<"B", "e", "a", "r", "e", "r", " ", "x">>
STR_Bearer_Bearer_k ==
    <<"B", "e", "a", "r", "e", "r", " ", "B", "e", "a", "r", "e", "r", " ", "k">>
STR_bearer_k == <<"b", "e", "a", "r", "e", "r", " ", "k">>

\* Authorization headers: absent, empty, without the scheme, with the right
\* and a wrong token, with the scheme twice, and with the scheme in lower
\* case.
HeaderSamples ==
    {None, Some(<< >>), Some(STR_k), Some(STR_Bearer_k), Some(STR_Bearer_x),
     Some(STR_Bearer_Bearer_k), Some(STR_bearer_k)}

\* ------------------------------------------------------------ OAuth2 flow

\* How many browser sessions there are.
MaxSessions == 2

SessionIds == 1..MaxSessions

DIGITS == <<"1", "2", "3", "4", "5">>

\* The pair the authorization server issues to session s.
AccessTokenOf(s) == <<"a", "t", "-", DIGITS[s]>>

RefreshTokenOf(s) == <<"r", "t", "-", DIGITS[s]>>

\* What exchange_code_for_token can answer: a pair, or a pair whose access
\* or refresh token is empty.
ExchangeKinds == {"pair", "no_access_token", "no_refresh_token"}

ExchangedTokens(s, kind) ==
    [access_token |-> IF kind = "no_access_token" THEN Some(<< >>)
                      ELSE Some(AccessTokenOf(s)),
     refresh_token |-> IF kind = "no_refresh_token" THEN Some(<< >>)
                       ELSE Some(RefreshTokenOf(s)),
     expires_at |-> None]

LoggedIn(s) == \E k \in 1..Len(user_tokens) : user_tokens[k].session = s

\* /auth followed by /auth/callback for a new session: the exchanged pair is
\* stored under the session identifier.
AuthCallback ==
    /\ pc = "idle"
    /\ TruthyStr(getenv("STRAVA_CLIENT_ID"))
    /\ \E s \in SessionIds, kind \in ExchangeKinds :
        /\ ~LoggedIn(s)
        /\ user_tokens' = Append(user_tokens,
                                 [session |-> s,
                                  tokens |-> ExchangedTokens(s, kind)])
    /\ UNCHANGED <<history, session, remote, server, tool, pc, args, activities, idx, calls,
                   result, env>>

\* /logout: del user_tokens[session_id]
Logout ==
    /\ pc = "idle"
    /\ \E s \in SessionIds :
        /\ LoggedIn(s)
        /\ user_tokens' =
               SelectIdx(user_tokens,
                         [k \in 1..Len(user_tokens) |->
                             user_tokens[k].session # s], 1)
    /\ UNCHANGED <<history, session, remote, server, tool, pc, args, activities, idx, calls,
                   result, env>>

\* ----------------------------------------------------- invocation actions

\* get_current_client() is going to send a refresh request.
AppRefreshes ==
    IF FirstStored # 0
    THEN AppRefreshWanted(user_tokens[FirstStored].tokens.refresh_token)
    ELSE /\ TruthyStr(getenv("STRAVA_ACCESS_TOKEN"))
         /\ AppRefreshWanted(getenv("STRAVA_REFRESH_TOKEN"))

\* What the refresh of the invocation can do; where none is sent there is
\* nothing to choose.
RefreshKindsIf(sent) == IF sent THEN RefreshKinds ELSE {"none"}

\* A request to /mcp passes through the bearer gate.
Dispatch ==
    /\ pc = "idle"
    /\ \E auth_header \in HeaderSamples :
        /\ args' = [Authorization |-> auth_header]
        /\ result' = dispatch(auth_header)
        /\ pc' = IF dispatch(auth_header) = FORWARDED THEN "forwarded"
                 ELSE "rejected"
    /\ server' = "app"
    /\ calls' = << >>
    /\ UNCHANGED <<history, session, remote, tool, activities, idx, env, user_tokens>>

\* A forwarded request runs a tool of app.py on behalf of a session.
AppTool ==
    /\ pc = "forwarded"
    /\ \E name \in ToolNames, s \in SessionIds,
          kind \in RefreshKindsIf(AppRefreshes) :
        \E tool_args \in ToolArgs(name) :
        \E outs \in OutcomeLists(Requests(name, tool_args)) :
            LET run == AppInvocation(name, tool_args, kind, outs)
            IN  /\ tool' = name
                /\ args' = [session |-> s, arguments |-> tool_args]
                /\ calls' = run.calls
                /\ result' = run.outcome
                /\ remote' = run.remote
                /\ user_tokens' = run.stored
    /\ pc' = "done"
    /\ UNCHANGED <<history, session, server, activities, idx, env>>

\* The package server runs a tool of main.py; it has no stored tokens and no
\* gate.
MainTool ==
    /\ pc = "idle"
    /\ user_tokens = << >>
    /\ \E name \in MainToolNames, kind \in RefreshKindsIf(~StravaClient.raised) :
        \E tool_args \in ToolArgs(name) :
        \E outs \in OutcomeLists(Requests(name, tool_args)) :
            LET run == MainInvocation(name, tool_args, kind, outs)
            IN  /\ tool' = name
                /\ args' = [arguments |-> tool_args]
                /\ calls' = run.calls
                /\ result' = run.outcome
                /\ remote' = run.remote
    /\ server' = "main"
    /\ pc' = "done"
    /\ UNCHANGED <<history, session, activities, idx, env, user_tokens>>

\* ------------------------------------------- inputs of the credential runs

STR_empty == << >>

\* Environments: one credential unset or empty, behind a bearer token; and,
\* with every credential set, each kind of bearer token.
EnvSamples ==
    LET ok == <<Some(STR_12345), Some(STR_secret), Some(STR_refresh),
                Some(STR_access)>>
        with(i, v) == [ok EXCEPT ![i] = v]
        env4(c, api) == Env(c[1], c[2], c[3], c[4], api)
    IN  {env4(with(i, v), Some(STR_k)) :
            i \in 1..4, v \in {None, Some(STR_empty)}}
        \cup {env4(ok, api) :
                api \in {None, Some(STR_empty), Some(STR_k),
                         Some(STR_Bearer_k)}}

InitAuth ==
    /\ remote = Numbered(<<NamedActivity(NAME_MorningRun, None, None, None,
                                         None)>>, 1)
    /\ server = "main"
    /\ tool = "none"
    /\ pc = "idle"
    /\ args = << >>
    /\ activities = << >>
    /\ idx = 0
    /\ calls = << >>
    /\ result = << >>
    /\ env \in EnvSamples
    /\ user_tokens = << >>
    /\ history = << >>
    /\ session = NO_SESSIONS

NextAuth == AuthCallback \/ Logout \/ Dispatch \/ AppTool \/ MainTool

\* Both servers obtaining credentials and running the simple tools.
SpecAuth == InitAuth /\ [][NextAuth]_vars

\* ------------------------------------------------------ claims C14 to C20

\* A finished invocation of one of the simple tools.
SimpleToolRun == tool \in MainToolNames /\ pc = "done"

IsRefresh(c) == c.op = "refresh_access_token"

IsApi(c) ==
    c.op \in {"get_activities", "get_activity", "get_athlete",
              "get_athlete_stats", "update_activity"}

\* The refresh answered with a mapping that carries an access token.
ReturnedAccessToken(c) ==
    /\ c.outcome.kind = "returns"
    /\ c.outcome.tokens # None
    /\ "access_token" \in DOMAIN c.outcome.tokens[1]

\* The pair app.py builds its client from: the first stored entry with an
\* access token, else the environment tokens.
AppPair ==
    IF FirstStored # 0
    THEN [access_token |-> user_tokens[FirstStored].tokens.access_token,
          refresh_token |-> user_tokens[FirstStored].tokens.refresh_token]
    ELSE [access_token |-> env.STRAVA_ACCESS_TOKEN,
          refresh_token |-> env.STRAVA_REFRESH_TOKEN]

\* Every read or update call of the run follows a refresh that did not fail
\* and carries the token that refresh left the client with.
FollowsRefresh(stale) ==
    \A i \in 1..Len(calls) :
        IsApi(calls[i]) =>
            /\ IsRefresh(calls[1])
            /\ i > 1
            /\ calls[1].outcome.kind = "returns"
            /\ calls[i].access_token =
                   IF ReturnedAccessToken(calls[1])
                   THEN calls[1].outcome.tokens[1].access_token
                   ELSE stale

\* C14 (as stated): every read or update call of a tool operation is
\* preceded, within the operation, by a credential refresh, and carries the
\* access token that refresh returned.
C14_RemoteCallPrecededByRefresh ==
    SimpleToolRun =>
        \A i \in 1..Len(calls) :
            IsApi(calls[i]) =>
                \E j \in 1..(i - 1) :
                    /\ IsRefresh(calls[j])
                    /\ ReturnedAccessToken(calls[j]) =>
                           calls[i].access_token =
                               calls[j].outcome.tokens[1].access_token

\* C14 (amended): in the package server every read or update call follows
\* the refresh of its StravaClient method and carries the token that refresh
\* returned; in the web-flow server a refresh is sent exactly when client
\* id, client secret and the refresh token of the pair in use are all
\* non-empty, the calls carry the refreshed token when the refresh returned
\* one and the token of the pair otherwise.
C14_RefreshWhenCredentialsAllow ==
    SimpleToolRun =>
        /\ server = "main" => FollowsRefresh(env.STRAVA_ACCESS_TOKEN)
        /\ (server = "app" /\ calls # << >>) =>
            LET able == /\ TruthyStr(env.STRAVA_CLIENT_ID)
                        /\ TruthyStr(env.STRAVA_CLIENT_SECRET)
                        /\ TruthyStr(AppPair.refresh_token)
            IN  /\ IsRefresh(calls[1]) <=> able
                /\ \A i \in 2..Len(calls) : ~IsRefresh(calls[i])
                /\ \A i \in 1..Len(calls) :
                       IsApi(calls[i]) =>
                           calls[i].access_token =
                               IF able /\ ReturnedAccessToken(calls[1])
                               THEN calls[1].outcome.tokens[1].access_token
                               ELSE AppPair.access_token

\* C14 witness: the web-flow server, with no client secret in the
\* environment, serves a tool from a stored pair without any refresh.
C14_Witness ==
    /\ SimpleToolRun
    /\ server = "app"
    /\ ~TruthyStr(env.STRAVA_CLIENT_SECRET)
    /\ FirstStored # 0
    /\ Len(calls) = 1
    /\ IsApi(calls[1])
    /\ calls[1].access_token = AppPair.access_token
    /\ ~result.raised

\* C15 (as stated): in both servers a refresh that fails is swallowed: the
\* stored credentials stay as they were and the tool's remote call is still
\* issued, with the stale access token.
C15_RefreshFailureSwallowed ==
    SimpleToolRun =>
        \A i \in 1..Len(calls) :
            (IsRefresh(calls[i]) /\ calls[i].outcome.kind = "raises") =>
                LET stale == IF server = "main" THEN env.STRAVA_ACCESS_TOKEN
                             ELSE AppPair.access_token
                IN  /\ \E j \in (i + 1)..Len(calls) :
                           /\ IsApi(calls[j])
                           /\ calls[j].access_token = stale
                    /\ (server = "app" /\ FirstStored # 0) =>
                           stale = Some(AccessTokenOf(
                                       user_tokens[FirstStored].session))

\* C16: when a read or update call of a tool fails, the invocation ends
\* with an error carrying the failure; the failing call is the last call
\* issued, and no call is issued twice.
C16_FailureSurfacesWithoutRetry ==
    SimpleToolRun =>
        /\ \A i \in 1..Len(calls) :
               (IsApi(calls[i]) /\ calls[i].outcome \in API_FAULTS) =>
                   /\ i = Len(calls)
                   /\ result.raised
                   /\ result.message = calls[i].outcome
        /\ \A i, j \in 1..Len(calls) :
               (i < j /\ IsApi(calls[i]) /\ IsApi(calls[j])) =>
                   <<calls[i].op, calls[i].arg>> # <<calls[j].op, calls[j].arg>>

\* C16 witness: get_stats whose first request is rate-limited; the statistics
\* are never asked for and the error reaches the caller.
C16_Witness ==
    /\ SimpleToolRun
    /\ tool = "get_stats"
    /\ calls # << >>
    /\ calls[Len(calls)].op = "get_athlete"
    /\ calls[Len(calls)].outcome = "rate_limited"
    /\ result = Raised("Fault", "rate_limited")

CREDENTIAL_NAMES ==
    {"STRAVA_CLIENT_ID", "STRAVA_CLIENT_SECRET", "STRAVA_REFRESH_TOKEN",
     "STRAVA_ACCESS_TOKEN"}

\* C17: a tool of the package server fails with RuntimeError("Missing Strava
\* credentials ...") before any remote call whenever one of the four
\* credentials is unset or empty; with all four present the client is built
\* and holds the given client id and secret.
C17_MissingCredentialsFatalAtConstruction ==
    (SimpleToolRun /\ server = "main") =>
        IF \E name \in CREDENTIAL_NAMES : env[name] = None \/ env[name] = Some(<< >>)
        THEN /\ result = Raised("RuntimeError",
                                "Missing Strava credentials in environment variables")
             /\ calls = << >>
        ELSE /\ ~(result.raised /\ result.type = "RuntimeError")
             /\ calls # << >>
             /\ IsRefresh(calls[1])
             /\ calls[1].client_id = env.STRAVA_CLIENT_ID
             /\ calls[1].client_secret = env.STRAVA_CLIENT_SECRET

\* C17 witness: the access token is set but empty, and the tool fails at
\* construction without a call.
C17_Witness ==
    /\ SimpleToolRun
    /\ server = "main"
    /\ env.STRAVA_ACCESS_TOKEN = Some(<< >>)
    /\ result.raised
    /\ result.type = "RuntimeError"
    /\ calls = << >>

\* C18: in the web-flow server a tool runs with the first stored entry that
\* has an access token whenever there is one, otherwise with the environment
\* access token, and fails with the 401 error, without any remote call, when
\* there is neither.
C18_StoredThenEnvironmentThen401 ==
    (SimpleToolRun /\ server = "app") =>
        IF \E k \in 1..Len(user_tokens) :
               TruthyStr(user_tokens[k].tokens.access_token)
        THEN /\ result # NOT_AUTHENTICATED
             /\ calls # << >>
             /\ \A i \in 1..Len(calls) :
                    /\ IsApi(calls[i]) =>
                           calls[i].access_token =
                               user_tokens[FirstStored].tokens.access_token
                    /\ IsRefresh(calls[i]) =>
                           calls[i].refresh_token =
                               user_tokens[FirstStored].tokens.refresh_token
        ELSE IF TruthyStr(env.STRAVA_ACCESS_TOKEN)
        THEN /\ result # NOT_AUTHENTICATED
             /\ calls # << >>
             /\ \A i \in 1..Len(calls) :
                    /\ IsApi(calls[i]) =>
                           calls[i].access_token \in
                               {env.STRAVA_ACCESS_TOKEN}
                               \cup (IF TruthyStr(env.STRAVA_REFRESH_TOKEN)
                                     THEN {Some(Fresh(env.STRAVA_REFRESH_TOKEN[1]))}
                                     ELSE {})
                    /\ IsRefresh(calls[i]) =>
                           calls[i].refresh_token = env.STRAVA_REFRESH_TOKEN
        ELSE /\ result = NOT_AUTHENTICATED
             /\ calls = << >>

\* C18 witness: the first stored entry has no access token, the second has
\* one, the environment has one too, and the tool runs with the second
\* entry's.
C18_Witness ==
    /\ SimpleToolRun
    /\ server = "app"
    /\ Len(user_tokens) = 2
    /\ FirstStored = 2
    /\ TruthyStr(env.STRAVA_ACCESS_TOKEN)
    /\ ~result.raised
    /\ calls[Len(calls)].access_token = user_tokens[2].tokens.access_token
    /\ calls[Len(calls)].access_token # env.STRAVA_ACCESS_TOKEN

\* The request went through the gate, or was answered by it.
Dispatched == pc \in {"forwarded", "rejected"}

\* C19 (as stated): with API_TOKEN configured a request is forwarded iff its
\* Authorization header is exactly "Bearer " followed by the token; a
\* missing header or one not starting with "Bearer " is answered 401, any
\* other token 403; without API_TOKEN every request is forwarded.
C19_ForwardedIffExactBearerToken ==
    Dispatched =>
        LET header == args.Authorization
            exact == header = Some(STR_Bearer \o env.API_TOKEN[1])
            noScheme == \/ header = None
                        \/ ~StartsWith(header[1], STR_Bearer)
        IN  IF TruthyStr(env.API_TOKEN)
            THEN /\ (result = FORWARDED) <=> exact
                 /\ noScheme => result.status_code = 401
                 /\ (~noScheme /\ ~exact) => result.status_code = 403
            ELSE result = FORWARDED

\* The access tokens that belong to session s: the one issued at login and
\* the one a refresh of its pair returns.
TokensOf(s) == {Some(AccessTokenOf(s)), Some(Fresh(RefreshTokenOf(s)))}

\* C20 (as stated): when several sessions have stored tokens, a tool invoked
\* on behalf of one of them is served with the pair stored under that
\* session's identifier, never with another session's tokens.
C20_ServedWithOwnSessionTokens ==
    (/\ SimpleToolRun
     /\ server = "app"
     /\ Len(user_tokens) >= 2
     /\ \E k \in 1..Len(user_tokens) :
            /\ user_tokens[k].session = args.session
            /\ TruthyStr(user_tokens[k].tokens.access_token)) =>
        \A i \in 1..Len(calls) :
            IsApi(calls[i]) =>
                /\ calls[i].access_token \in TokensOf(args.session)
                /\ \A other \in SessionIds \ {args.session} :
                       calls[i].access_token \notin TokensOf(other)

\* ================================================== a session of invocations

\* How many answered invocations the session keeps in its history.
MaxRuns == 1

\* The tools whose answers the history keeps: the classifier and the hint
\* synthesizer.
KeptToolNames ==
    {"detect_ebike_activities", "get_activity_details_for_naming"}

\* The remote records the finished invocation read: the activity fetched by
\* get_activity_details_for_naming, the list fetched by the detection.
RecordsRead ==
    IF tool = "get_activity_details_for_naming"
    THEN <<RemoteDetail(args.activity_id)>>
    ELSE activities

\* The invocation that has just finished, as the history keeps it: what was
\* asked, the remote records it read, the calls issued and the answer.
Invocation ==
    [server |-> server, tool |-> tool, args |-> args, records |-> RecordsRead,
     calls |-> calls, result |-> result]

\* mcp.run(): the answer goes back to the caller and the server waits for
\* the next request.
Respond ==
    /\ pc = "done"
    /\ IF tool \in KeptToolNames
       THEN /\ Len(history) < MaxRuns
            /\ history' = Append(history, Invocation)
       ELSE UNCHANGED history
    /\ pc' = "idle"
    /\ UNCHANGED <<remote, server, tool, args, activities, idx, calls, result,
                   env, user_tokens, session>>

\* The activities of the session: a climb on a mountain bike with little
\* effort and a cadence reading, and a run named by a template that has
\* coordinates and no location fields.
SessionSamples ==
    {Ride(Some(1000), Some(85), Some(3)),
     NamedActivity(NAME_MorningRun, None, None, None, LatLng(457, 48))}

\* The answers of the geocoder in the session: an error and an address.
SessionGeoOutcomes ==
    {GEO_RAISES,
     GeoFound(Address(None, Some(STR_Bessans), None, Some(STR_Suisse),
                      None, None))}

\* Every geocoder answer in a call log is one of the session's.
SessionGeo(log) ==
    \A i \in 1..Len(log) :
        log[i].op = "reverse_geocode" => log[i].outcome \in SessionGeoOutcomes

\* The simple tools of the session: every token refresh returned a pair, or
\* raised before an update; the remote service gave no empty answer; the
\* caller named a known activity.
SessionTool(name, tool_args, log) ==
    /\ "activity_id" \in DOMAIN tool_args => KnownActivity(tool_args.activity_id)
    /\ \A i \in 1..Len(log) :
        IF log[i].op = "refresh_access_token"
        THEN \/ log[i].outcome.kind = "raises" /\ name \notin ToolNames
             \/ /\ log[i].outcome.tokens # None
                /\ "access_token" \in DOMAIN log[i].outcome.tokens[1]
        ELSE log[i].outcome # "none"

InitSession ==
    /\ remote \in {list \in ListsOver(SessionSamples, 2) :
                      /\ Len(list) = 2
                      /\ IsRide(list[1])
                      /\ ~IsRide(list[2])}
    /\ server = "main"
    /\ tool = "none"
    /\ pc = "idle"
    /\ args = << >>
    /\ activities = << >>
    /\ idx = 0
    /\ calls = << >>
    /\ result = << >>
    /\ env = FULL_ENV
    /\ user_tokens = << >>
    /\ history = << >>
    /\ session = NO_SESSIONS

NextSession ==
    \/ DetectEbikeStart /\ args'.limit = MaxActs /\ args'.min_elevation = 200
    \/ DetectEbikeStep
    \/ DetectEbikeReturn
    \/ DetectGenericStart /\ server' = "main" /\ args'.limit = MaxNamed
    \/ DetectGenericStep /\ SessionGeo(calls')
    \/ DetectGenericReturn
    \/ GetActivityDetailsForNaming /\ server' = "main" /\ SessionGeo(calls')
    \/ MainTool /\ SessionTool(tool', args'.arguments, calls')
    \/ Respond

\* The package server answering one invocation after another.
SpecSession == InitSession /\ [][NextSession]_vars

\* ---------------------------------------------------------------- claim C21

\* The tools that only read.
ReadToolNames ==
    {"detect_ebike_activities", "detect_generic_named_activities",
     "get_activities", "get_activity", "get_stats",
     "get_activity_details_for_naming"}

\* The update requests of a call log.
UpdatesIn(log) == {i \in 1..Len(log) : log[i].op = "update_activity"}

\* The field an updating tool is to patch.
PatchedField(name) ==
    IF name = "rename_activity" THEN "name" ELSE "sport_type"

\* The calls of the running or finished invocation agree with its tool.
UpdatesAsNamed ==
    /\ tool \in ReadToolNames => UpdatesIn(calls) = {}
    /\ (tool \in MainToolNames \ ReadToolNames /\ pc = "done") =>
        /\ Cardinality(UpdatesIn(calls)) <= 1
        /\ ~result.raised => Cardinality(UpdatesIn(calls)) = 1
        /\ \A i \in UpdatesIn(calls) :
            /\ calls[i].arg.activity_id = args.arguments.activity_id
            /\ DOMAIN calls[i].arg = {"activity_id", PatchedField(tool)}

\* A step that changes the remote activities is an updating tool's, and
\* changes the one field of the one activity its caller named.
RemoteChangeAsNamed ==
    remote' # remote =>
        /\ tool' \in MainToolNames \ ReadToolNames
        /\ Len(remote') = Len(remote)
        /\ \A k \in 1..Len(remote) :
            /\ remote'[k].id # args'.arguments.activity_id
                   => remote'[k] = remote[k]
            /\ \A f \in DOMAIN remote[k] \ {PatchedField(tool')} :
                   remote'[k][f] = remote[k][f]

\* C21: the tools that read (the two detections included) issue no update
\* request and leave the remote activities as they are; rename_activity,
\* update_activity_type and fix_ebike_activity issue one update request (none
\* when the invocation failed before it), for the activity the caller named,
\* carrying only name, respectively only sport_type, and nothing else of the
\* remote activities changes.
C21_OnlyNamedUpdatesMutate ==
    [](UpdatesAsNamed) /\ [][RemoteChangeAsNamed]_vars

\* C21 witness: the detection reported activity 101 and left it a
\* MountainBikeRide; the fix_ebike_activity that followed issued one update
\* and the activity is an EMountainBikeRide.
C21_Witness ==
    /\ \E h \in 1..Len(history) :
        /\ history[h].tool = "detect_ebike_activities"
        /\ Len(history[h].result) = 1
        /\ history[h].records[1].id = 101
        /\ history[h].records[1].sport_type = Some(STR_MountainBikeRide)
    /\ tool = "fix_ebike_activity"
    /\ pc = "done"
    /\ Cardinality(UpdatesIn(calls)) = 1
    /\ remote[1].id = 101
    /\ remote[1].sport_type = Some(STR_EMountainBikeRide)

\* ---------------------------------------------------------------- claim C22

\* A finished detect_ebike_activities or get_activity_details_for_naming.
KeptRun == tool \in KeptToolNames /\ pc = "done"

\* The earlier invocation h asked the same tool of the same server the same
\* thing, and read the same remote records, as the one that has just finished.
SameRequest(h) ==
    /\ history[h].server = server
    /\ history[h].tool = tool
    /\ history[h].args = args
    /\ history[h].records = RecordsRead

\* The answers the geocoder gave in a call log, in order.
GeoAnswers(log) ==
    LET lookups == SelectIdx(log, [i \in 1..Len(log) |->
                                     log[i].op = "reverse_geocode"], 1)
    IN  [i \in 1..Len(lookups) |-> lookups[i].outcome]

Totals(count, distance, moving_time, elapsed_time, elevation_gain) ==
    [count |-> count, distance |-> distance, moving_time |-> moving_time,
     elapsed_time |-> elapsed_time, elevation_gain |-> elevation_gain]

STATS_KEYS ==
    {"recent_ride_totals", "recent_run_totals", "ytd_ride_totals",
     "ytd_run_totals", "all_ride_totals", "all_run_totals"}

\* def totals_to_dict(totals)
totals_to_dict(totals) ==
    IF totals = None THEN None
    ELSE Some([count |-> totals[1].count,
               distance |-> OrZero(totals[1].distance),
               moving_time |-> totals[1].moving_time,
               elapsed_time |-> totals[1].elapsed_time,
               elevation_gain |-> OrZero(totals[1].elevation_gain)])

\* StravaClient.get_stats() after the refresh: the requests it issues, with
\* the answers of the remote service, and the value it returns.
StravaClient_get_stats(athlete, stats) ==
    IF athlete = None
    THEN [calls |-> <<[op |-> "get_athlete", response |-> athlete]>>,
          value |-> None]
    ELSE [calls |-> <<[op |-> "get_athlete", response |-> athlete],
                      [op |-> "get_athlete_stats",
                       athlete_id |-> athlete[1].id, response |-> stats]>>,
          value |-> stats]

\* get_stats with the all-time run bucket read from the all-time rides.
get_stats_RunsFromRides(stats) ==
    IF stats = None THEN EMPTY_DICT
    ELSE [recent_ride_totals |-> totals_to_dict(stats[1].recent_ride_totals),
          recent_run_totals |-> totals_to_dict(stats[1].recent_run_totals),
          ytd_ride_totals |-> totals_to_dict(stats[1].ytd_ride_totals),
          ytd_run_totals |-> totals_to_dict(stats[1].ytd_run_totals),
          all_ride_totals |-> totals_to_dict(stats[1].all_ride_totals),
          all_run_totals |-> totals_to_dict(stats[1].all_ride_totals)]

\* The body of the tool get_stats, from `if not stats` on.
get_stats(stats) ==
    IF stats = None THEN EMPTY_DICT
    ELSE [recent_ride_totals |-> totals_to_dict(stats[1].recent_ride_totals),
          recent_run_totals |-> totals_to_dict(stats[1].recent_run_totals),
          ytd_ride_totals |-> totals_to_dict(stats[1].ytd_ride_totals),
          ytd_run_totals |-> totals_to_dict(stats[1].ytd_run_totals),
          all_ride_totals |-> totals_to_dict(stats[1].all_ride_totals),
          all_run_totals |-> totals_to_dict(stats[1].all_run_totals)]

\* The buckets of the sample statistics: the six of the unit tests, one
\* without distance and elevation gain, and one with every field absent.
TotalsSamples ==
    [recent_ride_totals |-> Totals(Some(5), Some(100000), Some(10000),
                                   Some(11000), Some(500)),
     recent_run_totals |-> Totals(Some(10), Some(80000), Some(8000),
                                  Some(8500), Some(300)),
     ytd_ride_totals |-> Totals(Some(50), Some(1000000), Some(100000),
                                Some(110000), Some(5000)),
     ytd_run_totals |-> Totals(Some(100), Some(800000), Some(80000),
                               Some(85000), Some(3000)),
     all_ride_totals |-> Totals(Some(200), Some(4000000), Some(400000),
                                Some(440000), Some(20000)),
     all_run_totals |-> Totals(Some(500), Some(6000000), Some(600000),
                               Some(650000), Some(30000))]

\* The statistics the remote service can answer with: none; every bucket
\* present; one bucket absent; every bucket absent; a bucket of zeros; a
\* bucket without distance and elevation gain.
StatsSamples ==
    LET full == [key \in STATS_KEYS |-> Some(TotalsSamples[key])]
    IN  {None, Some(full), Some([key \in STATS_KEYS |-> None])}
        \cup {Some([full EXCEPT ![key] = None]) : key \in STATS_KEYS}
        \cup {Some([full EXCEPT !.all_run_totals =
                        Some(Totals(Some(0), Some(0), Some(0), Some(0),
                                    Some(0)))]),
              Some([full EXCEPT !.ytd_ride_totals =
                        Some(Totals(Some(3), None, Some(900), Some(950),
                                    None))])}

AthleteSamples == {None, Some([id |-> 7])}

\* The tool get_stats of main.py.
GetStats ==
    /\ pc = "idle"
    /\ \E athlete \in AthleteSamples, stats \in StatsSamples :
        LET answer == StravaClient_get_stats(athlete, stats)
        IN  /\ calls' = ClientSetup("main") \o <<RefreshCall>> \o answer.calls
            /\ result' = get_stats(answer.value)
    /\ server' = "main"
    /\ tool' = "get_stats"
    /\ args' = EMPTY_DICT
    /\ pc' = "done"
    /\ UNCHANGED <<remote, activities, idx, env, user_tokens, history, session>>

\* ----------------------------------------------------------- get_activities

DIGIT_CHARS == <<"0", "1", "2", "3", "4", "5", "6", "7", "8", "9">>

\* The decimal digits of n, as many as `width`, zeros in front.
RECURSIVE ZeroPadded(_, _)
ZeroPadded(n, width) ==
    IF width = 0 THEN << >>
    ELSE Append(ZeroPadded(n \div 10, width - 1), DIGIT_CHARS[(n % 10) + 1])

\* A local date and time without microseconds.
DateTime(year, month, day, hour, minute, second) ==
    Some([year |-> year, month |-> month, day |-> day, hour |-> hour,
          minute |-> minute, second |-> second])

\* datetime.isoformat(): YYYY-MM-DDTHH:MM:SS
isoformat(d) ==
    ZeroPadded(d.year, 4) \o <<"-">> \o ZeroPadded(d.month, 2) \o <<"-">>
        \o ZeroPadded(d.day, 2) \o <<"T">> \o ZeroPadded(d.hour, 2) \o <<":">>
        \o ZeroPadded(d.minute, 2) \o <<":">> \o ZeroPadded(d.second, 2)

\* An activity of the list answer, with the fields get_activities reads.
SummaryActivity(name, type, distance, moving_time, elapsed_time, elevation, date) ==
    [Activity(type, type, moving_time, elevation, None, None)
        EXCEPT !.name = name, !.distance = distance]
    @@ [elapsed_time |-> elapsed_time, start_date_local |-> date]

\* The mapping get_activities builds for one activity.
ActivitySummary(activity) ==
    [id |-> activity.id,
     name |-> activity.name,
     type |-> activity.type,
     distance |-> OrZero(activity.distance),
     moving_time |-> to_seconds(activity.moving_time),
     elapsed_time |-> to_seconds(activity.elapsed_time),
     elevation_gain |-> OrZero(activity.total_elevation_gain),
     start_date_local |->
         IF activity.start_date_local # None
         THEN Some(isoformat(activity.start_date_local[1]))
         ELSE None]

\* get_activities that passes the default limit instead of the caller's.
list_request_DefaultLimit(limit) == ListCall(30)

\* client.get_activities(limit=limit)
list_request(limit) == ListCall(limit)

\* The list comprehension of get_activities.
get_activities(fetched) ==
    [k \in 1..Len(fetched) |-> ActivitySummary(fetched[k])]

\* How many activities the remote service holds in the reading runs.
MaxListed == 2

\* The activity of the unit tests; one with nothing but an id; one with
\* zero distance, a timedelta, no elapsed time and a date with one-digit
\* fields; one that lasted more than a day.
SummarySamples ==
    {SummaryActivity(Some(NAME_MorningRun), Some(STR_Run), Some(10000),
                     IntDuration(3600), IntDuration(3700), Some(150),
                     DateTime(2025, 12, 10, 8, 0, 0)),
     SummaryActivity(None, None, None, None, None, None, None),
     SummaryActivity(Some(STR_Ride), Some(STR_Ride), Some(0), TimeDelta(125),
                     None, Some(0), DateTime(987, 1, 2, 23, 59, 7)),
     SummaryActivity(Some(STR_Hike), Some(STR_Hike), Some(42195),
                     TimeDelta(90000), TimeDelta(90061), Some(2500), None)}

\* The limits a caller passes: none wanted, fewer than, as many as and more
\* than the remote service holds.
LimitSamples == {0, 1, MaxListed, 30}

\* The tool get_activities of main.py.
GetActivities ==
    /\ pc = "idle"
    /\ \E limit \in LimitSamples :
        /\ args' = [limit |-> limit]
        /\ calls' = ClientSetup("main") \o <<RefreshCall, list_request(limit)>>
        /\ activities' = RemoteList(calls'[2].limit)
        /\ result' = get_activities(activities')
    /\ server' = "main"
    /\ tool' = "get_activities"
    /\ pc' = "done"
    /\ UNCHANGED <<remote, idx, env, user_tokens, history, session>>

InitReads ==
    /\ remote \in ListsOver(SummarySamples, MaxListed)
    /\ server = "main"
    /\ tool = "none"
    /\ pc = "idle"
    /\ args = << >>
    /\ activities = << >>
    /\ idx = 0
    /\ calls = << >>
    /\ result = << >>
    /\ env = FULL_ENV
    /\ user_tokens = << >>
    /\ history = << >>
    /\ session = NO_SESSIONS

NextReads == GetStats \/ GetActivities

\* The package server answering get_stats and get_activities.
SpecReads == InitReads /\ [][NextReads]_vars

\* ---------------------------------------------------------------- claim C23

\* A finished get_stats of the reading runs, with the answers it received.
StatsRun == tool = "get_stats" /\ pc = "done"

AthleteAnswer == calls[2].response

StatsAnswer == IF Len(calls) = 3 THEN calls[3].response ELSE None

\* C23: get_stats returns the empty mapping when the athlete or the
\* statistics are absent; otherwise its result has exactly the six keys
\* recent/ytd/all x ride/run totals, each None when the bucket is absent and
\* otherwise a mapping whose count, moving_time and elapsed_time are the
\* bucket's and whose distance and elevation_gain are the bucket's numbers
\* (0 for a bucket that carries none).
C23_StatsMirrorBuckets ==
    StatsRun =>
        IF AthleteAnswer = None \/ StatsAnswer = None
        THEN result = EMPTY_DICT
        ELSE /\ DOMAIN result = STATS_KEYS
             /\ \A key \in STATS_KEYS :
                 LET bucket == StatsAnswer[1][key]
                 IN  IF bucket = None THEN result[key] = None
                     ELSE /\ result[key] # None
                          /\ DOMAIN result[key][1] =
                                 {"count", "distance", "moving_time",
                                  "elapsed_time", "elevation_gain"}
                          /\ result[key][1].count = bucket[1].count
                          /\ result[key][1].moving_time = bucket[1].moving_time
                          /\ result[key][1].elapsed_time = bucket[1].elapsed_time
                          /\ \A f \in {"distance", "elevation_gain"} :
                                 IF bucket[1][f] = None
                                 THEN result[key][1][f] = 0
                                 ELSE result[key][1][f] = bucket[1][f][1]

\* C23 witness: the statistics of the unit tests with the recent rides
\* absent: five buckets are mirrored, all_run_totals with count 500 and
\* distance 6000000, and recent_ride_totals is None.
C23_Witness ==
    /\ StatsRun
    /\ StatsAnswer # None
    /\ StatsAnswer[1].recent_ride_totals = None
    /\ result.recent_ride_totals = None
    /\ result.all_run_totals # None
    /\ result.all_run_totals[1].count = Some(500)
    /\ result.all_run_totals[1].distance = 6000000
    /\ result.all_run_totals[1].moving_time = Some(600000)
    /\ result.all_run_totals[1].elevation_gain = 30000

\* ---------------------------------------------------------------- claim C24

\* A finished get_activities of the reading runs.
ListRun == tool = "get_activities" /\ pc = "done"

\* The list requests of a call log.
ListRequestsIn(log) == {i \in 1..Len(log) : log[i].op = "get_activities"}

\* The number a string of decimal digits writes.
RECURSIVE Decimal(_)
Decimal(s) ==
    IF s = << >> THEN 0
    ELSE 10 * Decimal(SubSeq(s, 1, Len(s) - 1))
         + (CHOOSE v \in 0..9 : DIGIT_CHARS[v + 1] = s[Len(s)])

\* The date and time an ISO 8601 text of 19 characters denotes.
FromIso(text) ==
    [year |-> Decimal(SubSeq(text, 1, 4)),
     month |-> Decimal(SubSeq(text, 6, 7)),
     day |-> Decimal(SubSeq(text, 9, 10)),
     hour |-> Decimal(SubSeq(text, 12, 13)),
     minute |-> Decimal(SubSeq(text, 15, 16)),
     second |-> Decimal(SubSeq(text, 18, 19))]

\* C24: get_activities issues one list request, with the caller's limit, and
\* returns one mapping per activity of the answer, in the answer's order,
\* whose id, name and type are the record's, whose distance and
\* elevation_gain are the record's numbers (0 when absent), whose moving_time
\* is the record's in seconds and whose start_date_local is the ISO text of
\* the record's date (None when absent); an empty answer gives the empty
\* list.
C24_OneMappingPerListedActivity ==
    ListRun =>
        LET answer == RemoteList(args.limit)
        IN  /\ Cardinality(ListRequestsIn(calls)) = 1
            /\ \A i \in ListRequestsIn(calls) : calls[i].limit = args.limit
            /\ UpdatesIn(calls) = {}
            /\ Len(result) = Len(answer)
            /\ answer = << >> => result = << >>
            /\ \A k \in 1..Len(answer) :
                /\ DOMAIN result[k] =
                       {"id", "name", "type", "distance", "moving_time",
                        "elapsed_time", "elevation_gain", "start_date_local"}
                /\ result[k].id = answer[k].id
                /\ result[k].name = answer[k].name
                /\ result[k].type = answer[k].type
                /\ result[k].distance =
                       (IF answer[k].distance = None THEN 0
                        ELSE answer[k].distance[1])
                /\ result[k].elevation_gain =
                       (IF answer[k].total_elevation_gain = None THEN 0
                        ELSE answer[k].total_elevation_gain[1])
                /\ result[k].moving_time = SecondsOf(answer[k].moving_time)
                /\ IF answer[k].start_date_local = None
                   THEN result[k].start_date_local = None
                   ELSE /\ result[k].start_date_local # None
                        /\ Len(result[k].start_date_local[1]) = 19
                        /\ FromIso(result[k].start_date_local[1]) =
                               answer[k].start_date_local[1]

\* C24 witness: with limit 1 on two activities the tool returns the mapping
\* of the newest one only, the unit tests' run of 10000 m in 3600 s started
\* 2025-12-10T08:00:00.
C24_Witness ==
    /\ ListRun
    /\ args.limit = 1
    /\ Len(remote) = 2
    /\ Len(result) = 1
    /\ result[1].id = 101
    /\ result[1].name = Some(NAME_MorningRun)
    /\ result[1].distance = 10000
    /\ result[1].moving_time = 3600
    /\ result[1].elevation_gain = 150
    /\ result[1].start_date_local =
           Some(<<"2", "0", "2", "5", "-", "1", "2", "-", "1", "0", "T",
                  "0", "8", ":", "0", "0", ":", "0", "0">>)

\* ---------------------------------------------------------------- claim C25

\* The durations get_activities normalized, each with the number it
\* returned for it.
Normalized ==
    {<<activities[k].moving_time, result[k].moving_time>> : k \in 1..Len(result)}
    \cup
    {<<activities[k].elapsed_time, result[k].elapsed_time>> : k \in 1..Len(result)}

MaxIssued == 3

\* The n-th value of secrets.token_urlsafe(32); no two are alike.
SessionIdOf(n) == <<"s", "i", "d", "-", DIGITS[n]>>

\* request.session.get("session_id") of browser b.
SessionIdIn(b) == session.cookie[b]

\* session_id in user_tokens
Stored(session_id) ==
    \E k \in 1..Len(user_tokens) : user_tokens[k].session = session_id

\* user_tokens[session_id] = tokens: an existing key keeps its place.
StoreTokens(session_id, tokens) ==
    IF Stored(session_id)
    THEN [k \in 1..Len(user_tokens) |->
            IF user_tokens[k].session = session_id
            THEN [session |-> session_id, tokens |-> tokens]
            ELSE user_tokens[k]]
    ELSE Append(user_tokens, [session |-> session_id, tokens |-> tokens])

\* del user_tokens[session_id] that empties the whole store.
DeleteTokens_Everything(session_id) == << >>

\* del user_tokens[session_id]
DeleteTokens(session_id) ==
    SelectIdx(user_tokens,
              [k \in 1..Len(user_tokens) |->
                  user_tokens[k].session # session_id], 1)

HTTPException(status_code, detail) ==
    [status_code |-> status_code, detail |-> detail]

HTMLResponse(status_code, title) ==
    [status_code |-> status_code, detail |-> title]

RedirectResponse(url) == [status_code |-> 307, detail |-> url]

\* is_authenticated = session_id and session_id in user_tokens
is_authenticated(b) ==
    TruthyStr(SessionIdIn(b)) /\ Stored(SessionIdIn(b)[1])

\* GET /: the page for a connected or a not connected browser.
home ==
    /\ \E b \in Browsers :
        /\ args' = [browser |-> b]
        /\ result' = HTMLResponse(200, IF is_authenticated(b)
                                       THEN "Connected to Strava!"
                                       ELSE "Connect with Strava")
    /\ tool' = "/"
    /\ server' = "app"
    /\ UNCHANGED <<remote, pc, activities, idx, calls, env, user_tokens,
                   history, session>>

\* GET /auth
auth ==
    /\ session.issued < MaxIssued
    /\ \E b \in Browsers :
        /\ args' = [browser |-> b]
        /\ IF ~TruthyStr(getenv("STRAVA_CLIENT_ID"))
           THEN /\ result' = HTTPException(500, "STRAVA_CLIENT_ID not configured")
                /\ UNCHANGED session
           ELSE LET session_id == SessionIdOf(session.issued + 1)
                IN  /\ session' = [cookie |-> [session.cookie EXCEPT
                                                  ![b] = Some(session_id)],
                                   issued |-> session.issued + 1]
                    /\ result' = RedirectResponse("https://www.strava.com/oauth/authorize")
    /\ tool' = "/auth"
    /\ server' = "app"
    /\ UNCHANGED <<remote, pc, activities, idx, calls, env, user_tokens, history>>

\* What client.exchange_code_for_token can do in the web flow.
CodeExchanges == {"pair", "raises"}

\* auth_callback without the test of the error parameter.
callback_outcome_ErrorIgnored(session_id, code, state, error, exchange) ==
    IF ~TruthyStr(code)
    THEN [response |-> HTTPException(400, "Missing authorization code"),
          stores |-> FALSE]
    ELSE IF ~TruthyStr(state) \/ state # session_id
    THEN [response |-> HTTPException(400, "Invalid state parameter"),
          stores |-> FALSE]
    ELSE IF exchange = "raises"
    THEN [response |-> HTMLResponse(500, "Token Exchange Failed"),
          stores |-> FALSE]
    ELSE [response |-> RedirectResponse("/"), stores |-> TRUE]

\* The body of auth_callback: the response, and whether
\* user_tokens[session_id] is written.
callback_outcome(session_id, code, state, error, exchange) ==
    IF TruthyStr(error)
    THEN [response |-> HTMLResponse(400, "Authorization Failed"),
          stores |-> FALSE]
    ELSE IF ~TruthyStr(code)
    THEN [response |-> HTTPException(400, "Missing authorization code"),
          stores |-> FALSE]
    ELSE IF ~TruthyStr(state) \/ state # session_id
    THEN [response |-> HTTPException(400, "Invalid state parameter"),
          stores |-> FALSE]
    ELSE IF exchange = "raises"
    THEN [response |-> HTMLResponse(500, "Token Exchange Failed"),
          stores |-> FALSE]
    ELSE [response |-> RedirectResponse("/"), stores |-> TRUE]

STR_code == <<"c", "o", "d", "e">>

STR_access_denied == <<"a", "c", "c", "e", "s", "s", "_", "d", "e", "n", "i", "e", "d">>

\* The query strings /auth/callback is requested with by browser b: the one
\* the authorization server redirects to after consent or refusal, and ones
\* with the code or the state left out, empty, or taken from another
\* session.
CallbackQueries(b) ==
    LET own == SessionIdIn(b)
        query(code, state, error) ==
            [code |-> code, state |-> state, error |-> error]
    IN  {query(Some(STR_code), own, None),
         query(Some(STR_code), own, Some(STR_access_denied)),
         query(None, own, Some(STR_access_denied)),
         query(None, own, None),
         query(Some(STR_empty), own, None),
         query(Some(STR_code), None, None),
         query(Some(STR_code), Some(STR_empty), None)}
        \cup {query(Some(STR_code), Some(SessionIdOf(n)), None) :
                n \in 1..session.issued}

\* The number in a session identifier.
IssueNumber(session_id) ==
    CHOOSE n \in 1..MaxIssued : SessionIdOf(n) = session_id

\* GET /auth/callback
auth_callback ==
    /\ \E b \in Browsers :
        \E query \in CallbackQueries(b) :
        \E exchange \in CodeExchanges :
            LET session_id == SessionIdIn(b)
                outcome == callback_outcome(session_id, query.code,
                                            query.state, query.error, exchange)
                reached == outcome.stores \/ outcome.response.status_code = 500
            IN  /\ exchange = "raises" => reached
                /\ args' = [browser |-> b, code |-> query.code,
                            state |-> query.state, error |-> query.error,
                            exchange |-> IF reached THEN exchange ELSE "none"]
                /\ result' = outcome.response
                /\ user_tokens' =
                       IF outcome.stores
                       THEN StoreTokens(session_id[1],
                                ExchangedTokens(IssueNumber(session_id[1]),
                                                exchange))
                       ELSE user_tokens
    /\ tool' = "/auth/callback"
    /\ server' = "app"
    /\ UNCHANGED <<remote, pc, activities, idx, calls, env, history, session>>

\* GET /logout
logout ==
    /\ \E b \in Browsers :
        LET session_id == SessionIdIn(b)
        IN  /\ args' = [browser |-> b, session_id |-> session_id]
            /\ user_tokens' =
                   IF TruthyStr(session_id) /\ Stored(session_id[1])
                   THEN DeleteTokens(session_id[1])
                   ELSE user_tokens
            /\ session' = [session EXCEPT !.cookie[b] = None]
    /\ result' = RedirectResponse("/")
    /\ tool' = "/logout"
    /\ server' = "app"
    /\ UNCHANGED <<remote, pc, activities, idx, calls, env, history>>

InitOAuth ==
    /\ remote = << >>
    /\ server = "app"
    /\ tool = "none"
    /\ pc = "idle"
    /\ args = << >>
    /\ activities = << >>
    /\ idx = 0
    /\ calls = << >>
    /\ result = << >>
    /\ env \in {FULL_ENV, Env(None, Some(STR_secret), None, None, None)}
    /\ user_tokens = << >>
    /\ history = << >>
    /\ session = NO_SESSIONS

NextOAuth == home \/ auth \/ auth_callback \/ logout

\* Browsers walking through the web flow of app.py.
SpecOAuth == InitOAuth /\ [][NextOAuth]_vars

\* ---------------------------------------------------------------- claim C26

\* The entries of a token store under other keys than session_id.
EntriesBut(stored, session_id) ==
    {stored[k] : k \in {j \in 1..Len(stored) : stored[j].session # session_id}}

\* The entries of a token store under session_id.
EntriesOf(stored, session_id) ==
    {stored[k] : k \in {j \in 1..Len(stored) : stored[j].session = session_id}}

\* The session identifiers /auth has generated so far.
IssuedIds == {SessionIdOf(n) : n \in 1..session.issued}

\* The request that has just been answered carried a code and no error,
\* its state is the identifier /auth put into the browser's session, and
\* the exchange of the code succeeded.
CallbackGranted ==
    /\ args'.error = None
    /\ TruthyStr(args'.code)
    /\ TruthyStr(args'.state)
    /\ args'.state = SessionIdIn(args'.browser)
    /\ args'.state[1] \in IssuedIds
    /\ args'.exchange = "pair"

\* A step of /auth/callback writes user_tokens[s] when it is granted, and
\* leaves user_tokens as it is otherwise.
CallbackWritesOnlyGranted ==
    tool' = "/auth/callback" =>
        IF CallbackGranted
        THEN LET s == args'.state[1]
             IN  /\ EntriesBut(user_tokens', s) = EntriesBut(user_tokens, s)
                 /\ Len(user_tokens') = Cardinality(EntriesBut(user_tokens, s)) + 1
                 /\ \E entry \in EntriesOf(user_tokens', s) :
                        /\ TruthyStr(entry.tokens.access_token)
                        /\ TruthyStr(entry.tokens.refresh_token)
        ELSE user_tokens' = user_tokens

\* C26: /auth/callback writes user_tokens[s] only when the request has no
\* error parameter, has a code, has a non-empty state equal to the session_id
\* s that /auth stored in the requesting browser's session, and the exchange
\* of the code succeeds; in every other outcome user_tokens is unchanged.
C26_CallbackWritesOnlyWhenGranted == [][CallbackWritesOnlyGranted]_vars

\* C26 witness: a callback answered with the redirect to the home page has
\* stored a pair under the session identifier of its browser, while the
\* other browser holds an identifier under which nothing is stored.
C26_Witness ==
    /\ tool = "/auth/callback"
    /\ result = RedirectResponse("/")
    /\ args.state = SessionIdIn(args.browser)
    /\ Stored(args.state[1])
    /\ \E b \in Browsers :
        /\ b # args.browser
        /\ TruthyStr(SessionIdIn(b))
        /\ ~Stored(SessionIdIn(b)[1])

\* ---------------------------------------------------------------- claim C27

\* A step of /logout removes the entry under the session identifier of the
\* requesting browser, keeps every other entry in its place, and clears the
\* session of that browser only.
LogoutRemovesOwnEntry ==
    tool' = "/logout" =>
        LET b == args'.browser
            own == {k \in 1..Len(user_tokens) :
                      Some(user_tokens[k].session) = SessionIdIn(b)}
            kept == SelectIdx(user_tokens,
                              [k \in 1..Len(user_tokens) |-> k \notin own], 1)
        IN  /\ user_tokens' = kept
            /\ Cardinality(own) <= 1
            /\ session'.cookie[b] = None
            /\ \A other \in Browsers \ {b} :
                   session'.cookie[other] = session.cookie[other]

\* A browser that is not connected becomes connected only by its own
\* /auth/callback answered with the redirect, for a session identifier that
\* /auth generated.
ConnectedOnlyByCallback ==
    \A b \in Browsers :
        (~is_authenticated(b) /\ is_authenticated(b)') =>
            /\ tool' = "/auth/callback"
            /\ args'.browser = b
            /\ result' = RedirectResponse("/")
            /\ SessionIdIn(b)[1] \in IssuedIds

\* What the answered request shows: no browser is connected right after its
\* /logout, and the home page tells whether the browser is connected.
LogoutShown ==
    /\ tool = "/logout" => ~is_authenticated(args.browser)
    /\ tool = "/" =>
           (result.detail = "Connected to Strava!"
                <=> is_authenticated(args.browser))

\* C27: /logout removes exactly the user_tokens entry of the requesting
\* browser's session_id (if there is one), leaves every other entry
\* unchanged and clears the session; from then on the home page reports the
\* browser as not connected until a new /auth and /auth/callback succeed.
C27_LogoutRemovesOwnEntryOnly ==
    /\ []LogoutShown
    /\ [][LogoutRemovesOwnEntry /\ ConnectedOnlyByCallback]_vars

\* C27 witness: a browser has logged out with a session identifier that is
\* no longer stored, its session is empty, and the one entry left is the
\* other browser's, which is still connected.
C27_Witness ==
    /\ tool = "/logout"
    /\ TruthyStr(args.session_id)
    /\ ~Stored(args.session_id[1])
    /\ SessionIdIn(args.browser) = None
    /\ Len(user_tokens) = 1
    /\ \E b \in Browsers : b # args.browser /\ is_authenticated(b)

\* ---------------------------------------------------------------- claim C29

\* The session identifiers the browsers hold.
HeldIds == {SessionIdIn(b)[1] : b \in {c \in Browsers : SessionIdIn(c) # None}}

\* C29 (as stated): after any sequence of /auth, /auth/callback and /logout
\* requests, every key of user_tokens is the session_id some browser holds:
\* no entry that get_current_client can use is out of the reach of every
\* /logout.
C29_NoOrphanedEntry ==
    \A k \in 1..Len(user_tokens) : user_tokens[k].session \in HeldIds

\* ================================================== refresh after refresh

\* client = StravaClient() at the head of a tool of main.py.
NewStravaClient ==
    /\ pc = "idle"
    /\ server = "main"
    /\ ~StravaClient.raised
    /\ args' = [self |-> StravaClient.value]
    /\ tool' = "detect_ebike_activities"
    /\ pc' = "client"
    /\ UNCHANGED <<remote, server, activities, idx, calls, result, env,
                   user_tokens, history, session>>

\* The refresh at the head of a method of the StravaClient object: the one
\* of get_activities, then one per get_activity of the loop of
\* detect_ebike_activities.
ClientMethodRefresh ==
    /\ pc = "client"
    /\ Len(calls) < MaxActs + 1
    /\ \E kind \in RotationKinds :
        LET refreshed == refresh_access_token(args.self, kind)
        IN  /\ calls' = Append(calls, refreshed.call)
            /\ args' = [self |-> after_refresh(args.self, kind)]
            /\ pc' = IF refreshed.raised THEN "done" ELSE "client"
    /\ UNCHANGED <<remote, server, tool, activities, idx, result, env,
                   user_tokens, history, session>>

\* client = get_current_client() at the head of a tool of app.py, invoked
\* again and again.
AppClientRefresh ==
    /\ pc = "idle"
    /\ server = "app"
    /\ Len(calls) < MaxActs + 1
    /\ \E kind \in RotationKinds :
        LET client == get_current_client(kind)
        IN  /\ ~client.raised
            /\ calls' = calls \o client.calls
            /\ user_tokens' = client.stored
            /\ args' = [access_token |-> client.access_token]
    /\ tool' = "get_activities"
    /\ UNCHANGED <<remote, server, pc, activities, idx, result, env, history,
                   session>>

\* The package server with its environment pair; the web-flow server with
\* the pair of one session stored.
InitRefresh ==
    /\ remote = << >>
    /\ \/ server = "main" /\ user_tokens = << >>
       \/ /\ server = "app"
          /\ user_tokens = <<[session |-> 1,
                              tokens |-> ExchangedTokens(1, "pair")]>>
    /\ tool = "none"
    /\ pc = "idle"
    /\ args = << >>
    /\ activities = << >>
    /\ idx = 0
    /\ calls = << >>
    /\ result = << >>
    /\ env = FULL_ENV
    /\ history = << >>
    /\ session = NO_SESSIONS

NextRefresh == NewStravaClient \/ ClientMethodRefresh \/ AppClientRefresh

\* One credential pair refreshed several times in a row.
SpecRefresh == InitRefresh /\ [][NextRefresh]_vars

\* ---------------------------------------------------------------- claim C28

\* The refresh token a refresh returned, None when it returned none.
ReturnedRefreshToken(c) ==
    IF c.outcome.kind = "returns" /\ c.outcome.tokens # None
    THEN DictGet(c.outcome.tokens[1], "refresh_token", None)
    ELSE None

\* C28 (as stated): in a row of refreshes of one StravaClient object, or of
\* one stored entry of the web-flow server, a refresh that returned a
\* refresh token is followed by a refresh that presents that token.
C28_NextRefreshPresentsReturnedToken ==
    \A i \in 1..(Len(calls) - 1) :
        ReturnedRefreshToken(calls[i]) # None =>
            calls[i + 1].refresh_token = ReturnedRefreshToken(calls[i])

\* ---------------------------------------------------------------- claim C30

\* C30 (as stated): get_activity_details_for_naming never reports an
\* activity as fast when its distance is zero or its moving time is zero,
\* whatever its type.
C30_NoFastWithoutPaceOrSpeed ==
    MainDetailsRun =>
        LET d == OrZero(DetailsRecord.distance)
            t == to_seconds(DetailsRecord.moving_time)
        IN  (d = 0 \/ t = 0) => ~result.characteristics.is_fast

====
